---- MODULE Spec2Model ----
(***************************************************************************)
(* Model of the Speed Labs measurement page (src/app/page.tsx, component   *)
(* Home; the later revision of the same component, with the history clear  *)
(* button, is in src/components/Logo.tsx).                                  *)
(*                                                                         *)
(* Units.  Times are integer milliseconds.  Sample values and the live     *)
(* ping/download/upload values are integers in 1/1000 of their unit        *)
(* (Mbps or ms); the sample source only yields multiples of 6/1000, so     *)
(* the mean of 1, 2 or 3 samples and the mean of two middle elements are   *)
(* exact.  phaseProgress and progress are integers in 1/600 of a percent,  *)
(* which is exact for whole-millisecond timestamps and the three profile   *)
(* durations.                                                              *)
(***************************************************************************)
EXTENDS Integers, Sequences, FiniteSets, TLC

\* ---------------------------------------------------------------- bounds
MaxCalls == 3    \* startTest invocations in a behaviour of Spec
MaxRuns == 2     \* startTest invocations in a behaviour of SpecTiming
MaxValueRuns == 1 \* startTest invocations in a behaviour of SpecValues
MaxSamples == 3  \* raw samples per phase buffer
MaxRetentionRuns == 2 \* startTest invocations in a behaviour of SpecRetention
MaxDays == 2     \* days that pass in a behaviour of SpecRetention

\* ------------------------------------------------------ program constants
updateInterval == 100
displayInterval == 300
windowSize == 3
HistoryCap == 50
HoursPerDay == 24

\* fixed-point scales of the model: thirds of 1/200 percent, and thousandths
PctScale == 3 * 200
ValScale == 10 * 100

Profiles == {"quick", "standard", "extended"}

\* useState initial value of dataRetention
DefaultRetention == [maxEntries |-> 100, autoDelete |-> FALSE, deleteAfterDays |-> 30]

\* useState initial values of ispDown, ispUp and ispPing, in Mbps and ms
DefaultBaseline == [ispDown |-> 300, ispUp |-> 50, ispPing |-> 15]

\* variant: the download step reports phaseProgress / 3 like the ping step
DownloadBaseMissing == 0 * PctScale

\* the literals 33.33 and 66.66 of the download and upload step callbacks
DownloadBase == (3333 * PctScale) \div 100
\* ------------------------------------------------------------ environment
\* gaps between successive frame callbacks of requestAnimationFrame:
\* a coarse set, a fine set around the two cadences, and one steady gap
Delays == {300, 20000}
FineDelays == {60, 100, 300, 4996, 9800, 20000}
SteadyDelays == {7000}
LongDelays == {20000}

\* simulated readings of the sample source, per phase (5..30 ms,
\* 60..260 Mbps, 20..130 Mbps), in thousandths
SampleValues(ph) ==
  CASE ph = "ping" -> {12600, 24300}
    [] ph = "download" -> {80160, 200460}
    [] ph = "upload" -> {40260, 100500}

\* one reading per phase
OneValue(ph) ==
  CASE ph = "ping" -> {12600}
    [] ph = "download" -> {200460}
    [] ph = "upload" -> {40260}

\* values of a localStorage item: missing, not valid JSON, or JSON.stringify(h)
NoItem == [present |-> FALSE, parsable |-> FALSE, value |-> <<>>]
Unparsable == [present |-> TRUE, parsable |-> FALSE, value |-> <<>>]
Stringify(h) == [present |-> TRUE, parsable |-> TRUE, value |-> h]

StringifyBaseline(b) == [present |-> TRUE, parsable |-> TRUE, value |-> b]

\* ---------------------------------------------------------------- helpers
Min(a, b) == IF a < b THEN a ELSE b

RECURSIVE Sum(_)
Sum(s) == IF s = <<>> THEN 0 ELSE Head(s) + Sum(Tail(s))

RECURSIVE Insert(_, _)
Insert(x, s) ==
  IF s = <<>> THEN <<x>>
  ELSE IF x <= Head(s) THEN <<x>> \o s
  ELSE <<Head(s)>> \o Insert(x, Tail(s))

RECURSIVE Sorted(_)
Sorted(s) == IF s = <<>> THEN <<>> ELSE Insert(Head(s), Sorted(Tail(s)))

\* arr.slice(-k)
LastK(s, k) == IF Len(s) <= k THEN s ELSE SubSeq(s, Len(s) - k + 1, Len(s))

\* arr.slice(0, k)
FirstK(s, k) == IF Len(s) <= k THEN s ELSE SubSeq(s, 1, k)

\* recent.reduce((a, b) => a + b, 0) / recent.length
Mean(s) == Sum(s) \div Len(s)

\* the median field of calculateDetailedStats
StatsMedian(values) ==
  IF values = <<>> THEN 0
  ELSE LET sorted == Sorted(values)
           n == Len(sorted)
           mid == n \div 2
       IN IF n % 2 = 1 THEN sorted[mid + 1]
          ELSE (sorted[mid] + sorted[mid + 1]) \div 2

\* Math.round(x * 10) / 10
RoundTenth(x) == ((x + ValScale \div 20) \div (ValScale \div 10)) * (ValScale \div 10)

\* Math.round(x)
RoundUnit(x) == ((x + ValScale \div 2) \div ValScale) * ValScale

\* variant: elapsed is measured from one sampling interval before the start
PhaseProgressEarly(elapsed, phaseDuration) ==
  Min(100 * PctScale, (elapsed + updateInterval) * ((100 * PctScale) \div phaseDuration))

\* Math.min(100, (elapsed / phaseDuration) * 100)
PhaseProgress(elapsed, phaseDuration) ==
  Min(100 * PctScale, elapsed * ((100 * PctScale) \div phaseDuration))

\* ------------------------------------------------------------------ state
VARIABLES
  status,           \* useState "idle" | "running" | "done"
  closureStatus,    \* `status` as captured by the handlers of the last render
  phase,            \* useState "ping" | "download" | "upload" | "null"
  progress,         \* useState, 1/600 percent
  download,         \* useState live value
  upload,           \* useState live value
  ping,             \* useState live value
  samples,          \* useState {down, up, ping}
  history,          \* useState SpeedResult[], newest first
  historyLoaded,    \* useState
  incognitoMode,    \* useState
  incognitoRef,     \* useRef(false).current
  testProfile,      \* useState TestProfile
  showResultsModal, \* useState
  pendingModal,     \* number of pending setTimeout(() => setShowResultsModal(true))
  runs,             \* the live closures of the startTest calls that started a run
  stored,           \* localStorage item "speedtest-history"
  nextId,           \* source of crypto.randomUUID()
  calls,            \* number of startTest invocations so far
  rejected,         \* number of them that returned at the status check
  dataRetention,    \* useState {maxEntries, autoDelete, deleteAfterDays}
  storedRetention,  \* localStorage item "speedtest-dataretention"
  clock,            \* Date.now(), in whole hours
  baseline,         \* useState ispDown, ispUp, ispPing
  storedBaseline,   \* localStorage item "speedtest-baseline"
  webhooks,         \* the Map of the webhooks route, entries in insertion order
  callArgs,         \* arguments of a call of one of the module-level functions
  callResult        \* <<>> before the call returns, then <<returned value>>

vars == <<status, closureStatus, phase, progress, download, upload, ping,
          samples, history, historyLoaded, incognitoMode, incognitoRef,
          testProfile, showResultsModal, pendingModal, runs, stored, nextId,
          calls, rejected, dataRetention, storedRetention, clock,
          baseline, storedBaseline, webhooks, callArgs, callResult>>

retentionVars == <<dataRetention, storedRetention, clock>>

baselineVars == <<baseline, storedBaseline>>

callVars == <<callArgs, callResult>>

serverVars == <<webhooks>>

\* the state of the page component and its storage
pageVars == <<status, closureStatus, phase, progress, download, upload, ping,
              samples, history, historyLoaded, incognitoMode, incognitoRef,
              testProfile, showResultsModal, pendingModal, runs, stored,
              nextId, calls, rejected, dataRetention, storedRetention, clock,
              baseline, storedBaseline>>

\* Date.now() when the page is first opened: midnight of day 100, in hours
Today == 100 * HoursPerDay

Phases == {"ping", "download", "upload"}

EmptySamples == [down |-> <<>>, up |-> <<>>, ping |-> <<>>]

\* a parsable stored history of n Results, newest first
Prefilled(n) ==
  LET
    \* a Result saved by an earlier visit of the page
    OldResult(k) ==
      [id |-> k, timestamp |-> Today - (HistoryCap - k) * HoursPerDay,
       download |-> 100000, upload |-> 50000, ping |-> 20000]
  IN
                    [i \in 1..n |-> OldResult(n + 1 - i)]

\* the state of a freshly constructed component (the useState initial values)
Fresh ==
  /\ status = "idle"
  /\ closureStatus = "idle"
  /\ phase = "null"
  /\ progress = 0
  /\ download = 0
  /\ upload = 0
  /\ ping = 0
  /\ samples = EmptySamples
  /\ history = <<>>
  /\ historyLoaded = FALSE
  /\ incognitoMode = FALSE
  /\ incognitoRef = FALSE
  /\ testProfile = "standard"
  /\ showResultsModal = FALSE
  /\ pendingModal = 0
  /\ runs = <<>>

InitPage ==
  /\ Fresh
  /\ stored \in {NoItem, Unparsable, Stringify(Prefilled(HistoryCap - 1))}
  /\ nextId = HistoryCap + 1
  /\ calls = 0
  /\ rejected = 0
  /\ dataRetention = DefaultRetention
  /\ storedRetention = DefaultRetention
  /\ clock = Today
  /\ baseline = DefaultBaseline
  /\ storedBaseline = StringifyBaseline(DefaultBaseline)

Init ==
  /\ InitPage
  /\ webhooks = <<>>
  /\ callArgs = <<>>
  /\ callResult = <<>>

\* a call of a module-level function on one of the given argument lists
InitCall(inputs) ==
  /\ InitPage
  /\ stored = NoItem
  /\ webhooks = <<>>
  /\ callArgs \in inputs
  /\ callResult = <<>>

\* the call returns
Return(value) ==
  /\ callResult = <<>>
  /\ callResult' = <<value>>
  /\ UNCHANGED pageVars
  /\ UNCHANGED serverVars
  /\ UNCHANGED callArgs

\* ------------------------------------------------- module-level functions
\* variant: the comparisons are strict
calculateGradeStrict(actual, expected, type) ==
  IF type = "ping"
  THEN CASE actual * 100 < expected * 50 -> "A+"
         [] actual * 100 < expected * 75 -> "A"
         [] actual < expected -> "B"
         [] actual * 100 < expected * 150 -> "C"
         [] actual < expected * 2 -> "D"
         [] OTHER -> "F"
  ELSE CASE actual * 100 > expected * 120 -> "A+"
         [] actual > expected -> "A"
         [] actual * 100 > expected * 80 -> "B"
         [] actual * 100 > expected * 60 -> "C"
         [] actual * 100 > expected * 40 -> "D"
         [] OTHER -> "F"

\* calculateGrade: the factors 0.5, 0.75, 1.5, 1.2, 0.8, 0.6, 0.4 are taken
\* in hundredths on both sides of each comparison
calculateGrade(actual, expected, type) ==
  IF type = "ping"
  THEN IF actual * 100 <= expected * 50 THEN "A+"
       ELSE IF actual * 100 <= expected * 75 THEN "A"
       ELSE IF actual <= expected THEN "B"
       ELSE IF actual * 100 <= expected * 150 THEN "C"
       ELSE IF actual <= expected * 2 THEN "D"
       ELSE "F"
  ELSE IF actual * 100 >= expected * 120 THEN "A+"
       ELSE IF actual >= expected THEN "A"
       ELSE IF actual * 100 >= expected * 80 THEN "B"
       ELSE IF actual * 100 >= expected * 60 THEN "C"
       ELSE IF actual * 100 >= expected * 40 THEN "D"
       ELSE "F"

GradeInputs ==
  LET
    GradeTypes == {"download", "upload", "ping"}
    \* measured values around every threshold of both scales, for the
    \* expectations 100 and 20
    GradeActuals(expected) ==
      {0} \cup {(expected * f) \div 100 + e : f \in {40, 50, 60, 75, 80, 100, 120, 150, 200},
                                            e \in {0 - 1, 0, 1}}
  IN
      {[actual |-> a, expected |-> x, type |-> t] :
         a \in GradeActuals(100) \cup GradeActuals(20), x \in {100, 20}, t \in GradeTypes}

CallCalculateGrade ==
  Return(calculateGrade(callArgs.actual, callArgs.expected, callArgs.type))

\* calls of calculateGrade around its thresholds
SpecGrade == InitCall(GradeInputs) /\ [][CallCalculateGrade]_vars

Grades == {"A+", "A", "B", "C", "D", "F"}

\* gradeValues of the completion updater, in tenths of a grade point
gradeValues(g) ==
  CASE g = "A+" -> 43
    [] g = "A" -> 40
    [] g = "B" -> 30
    [] g = "C" -> 20
    [] g = "D" -> 10
    [] g = "F" -> 0

\* variant: the average has to exceed each bound
overallGradeStrict(downGrade, upGrade, pingGrade) ==
  LET total == gradeValues(downGrade) + gradeValues(upGrade) + gradeValues(pingGrade)
  IN IF total > 42 * 3 THEN "A+"
     ELSE IF total > 35 * 3 THEN "A"
     ELSE IF total > 25 * 3 THEN "B"
     ELSE IF total > 15 * 3 THEN "C"
     ELSE IF total > 5 * 3 THEN "D"
     ELSE "F"

\* variant: the download grade counts twice
overallGradeWeighted(downGrade, upGrade, pingGrade) ==
  LET total == 2 * gradeValues(downGrade) + gradeValues(upGrade) + gradeValues(pingGrade)
  IN IF total >= 42 * 4 THEN "A+"
     ELSE IF total >= 35 * 4 THEN "A"
     ELSE IF total >= 25 * 4 THEN "B"
     ELSE IF total >= 15 * 4 THEN "C"
     ELSE IF total >= 5 * 4 THEN "D"
     ELSE "F"

\* overallGrade of the completion updater: avgGradeValue >= 4.2 etc. is
\* compared as three times the average, in tenths
overallGrade(downGrade, upGrade, pingGrade) ==
  LET total == gradeValues(downGrade) + gradeValues(upGrade) + gradeValues(pingGrade)
  IN IF total >= 42 * 3 THEN "A+"
     ELSE IF total >= 35 * 3 THEN "A"
     ELSE IF total >= 25 * 3 THEN "B"
     ELSE IF total >= 15 * 3 THEN "C"
     ELSE IF total >= 5 * 3 THEN "D"
     ELSE "F"

OverallInputs ==
  {[downGrade |-> d, upGrade |-> u, pingGrade |-> g] : d \in Grades, u \in Grades, g \in Grades}

CallOverallGrade ==
  Return(overallGrade(callArgs.downGrade, callArgs.upGrade, callArgs.pingGrade))

\* the overall grade of every triple of per-metric grades
SpecOverall == InitCall(OverallInputs) /\ [][CallOverallGrade]_vars

\* Math.sqrt, truncated to the unit of its argument's root
Sqrt(x) == CHOOSE r \in 0..x : r * r <= x /\ x < (r + 1) * (r + 1)

ZeroStats == [mean |-> 0, median |-> 0, min |-> 0, max |-> 0, stdDev |-> 0, p95 |-> 0, p99 |-> 0]

\* variant: the percentile index is rounded down
calculateDetailedStatsFloor(values) ==
  IF values = <<>> THEN ZeroStats
  ELSE LET sorted == Sorted(values)
           n == Len(sorted)
           mean == Sum(values) \div n
           variance == Sum([j \in DOMAIN values |-> (values[j] - mean) * (values[j] - mean)]) \div n
       IN [mean |-> mean, median |-> StatsMedian(values), min |-> sorted[1],
           max |-> sorted[n], stdDev |-> Sqrt(variance),
           p95 |-> sorted[IF (n * 95) \div 100 = 0 THEN 1 ELSE (n * 95) \div 100],
           p99 |-> sorted[IF (n * 99) \div 100 = 0 THEN 1 ELSE (n * 99) \div 100]]

\* calculateDetailedStats; mean and stdDev are truncated to the unit of the
\* samples
calculateDetailedStats(values) ==
  LET
    \* Math.ceil(n * 0.95) - 1 and Math.ceil(n * 0.99) - 1, as positions 1..n
    p95Index(n) == (n * 95 + 99) \div 100
    p99Index(n) == (n * 99 + 99) \div 100
  IN
      IF values = <<>> THEN ZeroStats
      ELSE LET sorted == Sorted(values)
               n == Len(sorted)
               mean == Sum(values) \div n
               variance == Sum([j \in DOMAIN values |-> (values[j] - mean) * (values[j] - mean)]) \div n
           IN [mean |-> mean,
               median |-> StatsMedian(values),
               min |-> sorted[1],
               max |-> sorted[n],
               stdDev |-> Sqrt(variance),
               p95 |-> sorted[p95Index(n)],
               p99 |-> sorted[p99Index(n)]]

Cycle(n, step, modulus) == [j \in 1..n |-> 2 * ((j * step) % modulus)]

StatsInputs ==
  LET
    \* sample arrays: every array of up to 3 samples out of three values, and
    \* arrays of 4 to 41 samples that run through a cycle of values
    StatsLengths == {4, 5, 19, 20, 21, 40, 41}
  IN
      {[values |-> v] : v \in UNION {[1..n -> {2, 4, 8}] : n \in 0..3}}
        \cup {[values |-> Cycle(n, step, modulus)] :
                 n \in StatsLengths, step \in {1, 3, 7}, modulus \in {1, 5, 43}}

CallCalculateDetailedStats ==
  LET
    \* the caller's array after const sorted = [...values].sort(...): the copy
    \* is sorted, the argument is not touched
    ArgumentAfterStats(values) == values
  IN
      /\ callResult = <<>>
      /\ callResult' = <<calculateDetailedStats(callArgs.values)>>
      /\ callArgs' = [callArgs EXCEPT !.values = ArgumentAfterStats(callArgs.values)]
      /\ UNCHANGED pageVars
      /\ UNCHANGED serverVars

\* calls of calculateDetailedStats
SpecStats == InitCall(StatsInputs) /\ [][CallCalculateDetailedStats]_vars

\* variant: 100 - coefficientOfVariation * 100
calculateStabilityScoreHalved(stats) ==
  IF stats.mean = 0 THEN 0
  ELSE IF 100 * stats.mean - 100 * stats.stdDev <= 0 THEN 0
  ELSE Min(100, (200 * stats.mean - 200 * stats.stdDev + stats.mean) \div (2 * stats.mean))

\* calculateStabilityScore for a mean that is not negative:
\* Math.round(Math.max(0, Math.min(100, 100 - (stdDev / mean) * 200)))
calculateStabilityScore(stats) ==
  IF stats.mean = 0 THEN 0
  ELSE IF 100 * stats.mean - 200 * stats.stdDev <= 0 THEN 0
  ELSE Min(100, (200 * stats.mean - 400 * stats.stdDev + stats.mean) \div (2 * stats.mean))

StabilityInputs ==
  LET
    \* means and standard deviations: zero, constant samples, coefficients of
    \* variation on both sides of the roundings and of 0.5
    StabilityStats ==
      {[mean |-> m, stdDev |-> d] : m \in {0, 400, 1000}, d \in {0, 1, 2, 3, 5, 199, 200, 250, 499, 500, 501, 600}}
  IN
      {[downloadStats |-> a, uploadStats |-> b, pingStats |-> [mean |-> 20, stdDev |-> 5]] :
         a \in StabilityStats, b \in {[mean |-> 400, stdDev |-> 0], [mean |-> 0, stdDev |-> 0]}}

CallResultStabilityScore ==
  LET
    \* stabilityScore of the completion updater:
    \* calculateStabilityScore(downloadStats)
    ResultStabilityScore(downloadStats, uploadStats, pingStats) ==
      calculateStabilityScore(downloadStats)
  IN
      Return(ResultStabilityScore(callArgs.downloadStats, callArgs.uploadStats, callArgs.pingStats))

\* the stability score of a Result for given statistics of its three phases
SpecStability == InitCall(StabilityInputs) /\ [][CallResultStabilityScore]_vars

\* variant: the differences are summed with their sign
calculateJitterSigned(pingValues) ==
  IF Len(pingValues) < 2 THEN 0
  ELSE Sum([i \in 1..(Len(pingValues) - 1) |-> pingValues[i + 1] - pingValues[i]])
         \div (Len(pingValues) - 1)

\* calculateJitter: the loop adds Math.abs(pingValues[i] - pingValues[i - 1])
\* for i = 1 .. length - 1
calculateJitter(pingValues) ==
  LET
    \* Math.abs
    Abs(x) == IF x < 0 THEN 0 - x ELSE x
  IN
      IF Len(pingValues) < 2 THEN 0
      ELSE Sum([i \in 1..(Len(pingValues) - 1) |-> Abs(pingValues[i + 1] - pingValues[i])])
             \div (Len(pingValues) - 1)

\* every array of up to 4 ping samples out of three values; the values are
\* multiples of 6, so that the division by 1, 2 or 3 is exact
JitterInputs ==
  {[pingValues |-> v] : v \in UNION {[1..n -> {60, 72, 90}] : n \in 0..4}}

CallCalculateJitter == Return(calculateJitter(callArgs.pingValues))

\* calls of calculateJitter
SpecJitter == InitCall(JitterInputs) /\ [][CallCalculateJitter]_vars

\* ------------------------------------------------------------- operations
\* variant: the save effect enforces the entry limit only
RetainNoAge(h, settings, now) == FirstK(h, settings.maxEntries)

\* filteredHistory of the save effect (src/components/Logo.tsx): the first
\* maxEntries Results, without those at or before the cutoff date
Retain(h, settings, now) ==
  LET capped == FirstK(h, settings.maxEntries)
      cutoffDate == now - settings.deleteAfterDays * HoursPerDay
  IN IF settings.autoDelete /\ settings.deleteAfterDays > 0
     THEN SelectSeq(capped, LAMBDA r : r.timestamp > cutoffDate)
     ELSE capped

\* variant: a baseline item that cannot be parsed zeroes the baseline
ParseBaselineZeroed(item, current) ==
  IF ~item.present THEN current
  ELSE IF ~item.parsable THEN [ispDown |-> 0, ispUp |-> 0, ispPing |-> 0]
  ELSE [f \in DOMAIN current |->
          IF f \in DOMAIN item.value THEN item.value[f] ELSE current[f]]

\* the baseline part of the load effect: parsed.ispDown ?? ispDown etc.
\* inside try/catch
ParseBaseline(item, current) ==
  IF item.present /\ item.parsable
  THEN [f \in DOMAIN current |->
          IF f \in DOMAIN item.value THEN item.value[f] ELSE current[f]]
  ELSE current

\* mount effects: load history, the baseline and the retention settings, then
\* (second render) the save effects
LoadEffect ==
  LET
    \* JSON.parse(stored) inside try/catch of the load effect
    ParseHistory(item) == IF item.present /\ item.parsable THEN item.value ELSE <<>>
  IN
      /\ ~historyLoaded
      /\ dataRetention' = storedRetention
      /\ history' = Retain(ParseHistory(stored), storedRetention, clock)
      /\ historyLoaded' = TRUE
      /\ stored' = Stringify(history')
      /\ baseline' = ParseBaseline(storedBaseline, baseline)
      /\ storedBaseline' = StringifyBaseline(baseline')
      /\ UNCHANGED <<storedRetention, clock>>
      /\ UNCHANGED <<status, closureStatus, phase, progress, download, upload,
                     ping, samples, incognitoMode, incognitoRef, testProfile,
                     showResultsModal, pendingModal, runs, nextId, calls, rejected>>
      /\ UNCHANGED callVars
      /\ UNCHANGED serverVars

\* variant: startTest without the status check
StartGuardMissing(st) == FALSE

\* if (status === "running") return;
StartGuard(st) == st = "running"

\* the closure state created by runPingPhase.  The step callbacks use time
\* only through differences with phaseStart = performance.now(), to which
\* lastUpdate and lastDisplay are initialised, so the closure keeps the
\* timestamp of its last frame (now), lastUpdate and lastDisplay as offsets
\* from phaseStart; elapsed is the value computed by its last step callback.
NewRun(isIncognito, profile) ==
  LET
    profileDurations(p) ==
      CASE p = "quick" -> 5000
        [] p = "standard" -> 10000
        [] p = "extended" -> 20000
  IN
      [isIncognito |-> isIncognito,
       phaseDuration |-> profileDurations(profile),
       pc |-> "ping", now |-> 0, lastUpdate |-> 0, lastDisplay |-> 0,
       buf |-> <<>>, elapsed |-> 0,
       pingSamples |-> <<>>, downloadSamples |-> <<>>]

\* startTest(isIncognito), followed by the synchronous re-render of the click
startTest(isIncognito) ==
  /\ calls' = calls + 1
  /\ IF StartGuard(closureStatus)
     THEN /\ rejected' = rejected + 1
          /\ UNCHANGED <<status, closureStatus, phase, progress, download,
                         upload, ping, samples, incognitoMode, incognitoRef,
                         runs>>
     ELSE /\ rejected' = rejected
          /\ incognitoRef' = isIncognito
          /\ incognitoMode' = isIncognito
          /\ status' = "running"
          /\ closureStatus' = "running"
          /\ progress' = 0
          /\ download' = 0
          /\ upload' = 0
          /\ ping' = 0
          /\ samples' = EmptySamples
          /\ phase' = "ping"
          /\ runs' = Append(runs, NewRun(isIncognito, testProfile))

\* the Start Test / Incognito buttons (disabled while running)
ClickStart(isIncognito) ==
  /\ historyLoaded
  /\ closureStatus # "running"
  /\ startTest(isIncognito)
  /\ UNCHANGED <<history, historyLoaded, testProfile, showResultsModal,
                 pendingModal, stored, nextId>>
  /\ UNCHANGED retentionVars
  /\ UNCHANGED baselineVars
  /\ UNCHANGED callVars
  /\ UNCHANGED serverVars

\* Run Again of the results modal: setShowResultsModal(false); startTest(false)
ClickRunAgain ==
  /\ historyLoaded
  /\ showResultsModal
  /\ history # <<>>
  /\ showResultsModal' = FALSE
  /\ startTest(FALSE)
  /\ UNCHANGED <<history, historyLoaded, testProfile, pendingModal, stored,
                 nextId>>
  /\ UNCHANGED retentionVars
  /\ UNCHANGED baselineVars
  /\ UNCHANGED callVars
  /\ UNCHANGED serverVars

\* View Details of the results modal
CloseModal ==
  /\ showResultsModal
  /\ history # <<>>
  /\ showResultsModal' = FALSE
  /\ UNCHANGED <<status, closureStatus, phase, progress, download, upload,
                 ping, samples, history, historyLoaded, incognitoMode,
                 incognitoRef, testProfile, pendingModal, runs, stored,
                 nextId, calls, rejected>>
  /\ UNCHANGED retentionVars
  /\ UNCHANGED baselineVars
  /\ UNCHANGED callVars
  /\ UNCHANGED serverVars

\* setTimeout(() => setShowResultsModal(true), 300) fires
ModalTimer ==
  /\ pendingModal > 0
  /\ pendingModal' = pendingModal - 1
  /\ showResultsModal' = TRUE
  /\ UNCHANGED <<status, closureStatus, phase, progress, download, upload,
                 ping, samples, history, historyLoaded, incognitoMode,
                 incognitoRef, testProfile, runs, stored, nextId, calls, rejected>>
  /\ UNCHANGED retentionVars
  /\ UNCHANGED baselineVars
  /\ UNCHANGED callVars
  /\ UNCHANGED serverVars

\* the Test Duration buttons (disabled while running)
SetTestProfile(p) ==
  /\ historyLoaded
  /\ closureStatus # "running"
  /\ p # testProfile
  /\ testProfile' = p
  /\ UNCHANGED <<status, closureStatus, phase, progress, download, upload,
                 ping, samples, history, historyLoaded, incognitoMode,
                 incognitoRef, showResultsModal, pendingModal, runs, stored,
                 nextId, calls, rejected>>
  /\ UNCHANGED retentionVars
  /\ UNCHANGED baselineVars
  /\ UNCHANGED callVars
  /\ UNCHANGED serverVars

\* the common part of the three step callbacks, for the frame at r.now + d
\* that reads sample v: elapsed, phaseProgress, the two cadence tests, the
\* raw buffer after the push and the smoothed value
StepOutcome(r, d, v) ==
  LET now == r.now + d
      elapsed == now
      phaseProgress == PhaseProgress(elapsed, r.phaseDuration)
      finished == ~(phaseProgress < 100 * PctScale)
      sampling == (now - r.lastUpdate >= updateInterval) \/ phaseProgress >= 100 * PctScale
      display == sampling /\ ((now - r.lastDisplay >= displayInterval) \/ phaseProgress >= 100 * PctScale)
      buf == IF sampling THEN Append(r.buf, v) ELSE r.buf
  IN [now |-> now,
      phaseProgress |-> phaseProgress,
      finished |-> finished,
      sampling |-> sampling,
      display |-> display,
      buf |-> buf,
      avg |-> IF buf = <<>> THEN 0 ELSE Mean(LastK(buf, windowSize))]

\* room in the bounded buffers: a frame that ends the phase always pushes
RoomFor(r, o) ==
  \/ ~o.sampling
  \/ o.finished /\ Len(r.buf) < MaxSamples
  \/ Len(r.buf) < MaxSamples - 1

\* variant: the phase functions do not set the phase
NextPhaseUnset(ph) == "null"

\* variant: the ping phase hands over to the upload phase
NextPhaseSkip(ph) == "upload"

\* the phase started when phase ph ends: runPingPhase calls runDownloadPhase,
\* runDownloadPhase calls runUploadPhase
NextPhase(ph) == IF ph = "ping" THEN "download" ELSE "upload"

\* the closure after a step that does not end the phase
Continue(r, o) ==
  [r EXCEPT !.now = o.now,
            !.lastUpdate = IF o.sampling THEN o.now ELSE @,
            !.lastDisplay = IF o.display THEN o.now ELSE @,
            !.buf = o.buf,
            !.elapsed = o.now]

\* the closure after runDownloadPhase / runUploadPhase started phase ph
EnterPhase(r, o, ph) ==
  [r EXCEPT !.pc = ph, !.now = 0, !.lastUpdate = 0, !.lastDisplay = 0,
            !.buf = <<>>, !.elapsed = o.now,
            !.pingSamples = IF r.pc = "ping" THEN o.buf ELSE @,
            !.downloadSamples = IF r.pc = "download" THEN o.buf ELSE @]

\* runPingPhase.step
PingStep(i, d, v) ==
  /\ i \in 1..Len(runs)
  /\ runs[i].pc = "ping"
  /\ LET r == runs[i]
         o == StepOutcome(r, d, v)
     IN /\ RoomFor(r, o)
        /\ ping' = IF o.display THEN o.avg ELSE ping
        /\ progress' = IF o.sampling THEN o.phaseProgress \div 3 ELSE progress
        /\ IF ~o.finished
           THEN /\ runs' = [runs EXCEPT ![i] = Continue(r, o)]
                /\ UNCHANGED <<samples, phase>>
           ELSE /\ samples' = [samples EXCEPT !.ping = o.buf]
                /\ phase' = NextPhase("ping")
                /\ runs' = [runs EXCEPT ![i] = EnterPhase(r, o, NextPhase("ping"))]
  /\ UNCHANGED <<status, closureStatus, download, upload, history,
                 historyLoaded, incognitoMode, incognitoRef, testProfile,
                 showResultsModal, pendingModal, stored, nextId, calls, rejected>>
  /\ UNCHANGED retentionVars
  /\ UNCHANGED baselineVars
  /\ UNCHANGED callVars
  /\ UNCHANGED serverVars

\* runDownloadPhase.step
DownloadStep(i, d, v) ==
  /\ i \in 1..Len(runs)
  /\ runs[i].pc = "download"
  /\ LET r == runs[i]
         o == StepOutcome(r, d, v)
     IN /\ RoomFor(r, o)
        /\ download' = IF o.display THEN o.avg ELSE download
        /\ progress' = IF o.sampling THEN DownloadBase + o.phaseProgress \div 3
                       ELSE progress
        /\ IF ~o.finished
           THEN /\ runs' = [runs EXCEPT ![i] = Continue(r, o)]
                /\ UNCHANGED <<samples, phase>>
           ELSE /\ samples' = [samples EXCEPT !.down = o.buf]
                /\ phase' = NextPhase("download")
                /\ runs' = [runs EXCEPT ![i] = EnterPhase(r, o, NextPhase("download"))]
  /\ UNCHANGED <<status, closureStatus, ping, upload, history,
                 historyLoaded, incognitoMode, incognitoRef, testProfile,
                 showResultsModal, pendingModal, stored, nextId, calls, rejected>>
  /\ UNCHANGED retentionVars
  /\ UNCHANGED baselineVars
  /\ UNCHANGED callVars
  /\ UNCHANGED serverVars

\* runUploadPhase.step; the last frame leaves the completion updater queued
UploadStep(i, d, v) ==
  LET
    UploadBase == (6666 * PctScale) \div 100
  IN
      /\ i \in 1..Len(runs)
      /\ runs[i].pc = "upload"
      /\ LET r == runs[i]
             o == StepOutcome(r, d, v)
         IN /\ RoomFor(r, o)
            /\ upload' = IF o.display THEN o.avg ELSE upload
            /\ progress' = IF o.sampling THEN UploadBase + o.phaseProgress \div 3
                           ELSE progress
            /\ IF ~o.finished
               THEN runs' = [runs EXCEPT ![i] = Continue(r, o)]
               ELSE runs' = [runs EXCEPT ![i] = [Continue(r, o) EXCEPT !.pc = "finishing"]]
      /\ UNCHANGED <<status, closureStatus, phase, ping, download, samples,
                     history, historyLoaded, incognitoMode, incognitoRef,
                     testProfile, showResultsModal, pendingModal, stored, nextId,
                     calls, rejected>>
      /\ UNCHANGED retentionVars
      /\ UNCHANGED baselineVars
      /\ UNCHANGED callVars
      /\ UNCHANGED serverVars

\* stats.jitter and stats.grade of the finished Result: the jitter of the
\* raw ping samples and the overall grade of the three medians against the
\* baseline (Mbps and ms, the samples being in thousandths)
ResultStats(allSamples) ==
  [jitter |-> calculateJitter(allSamples.ping),
   grade |-> overallGrade(
     calculateGrade(StatsMedian(allSamples.down), baseline.ispDown * ValScale, "download"),
     calculateGrade(StatsMedian(allSamples.up), baseline.ispUp * ValScale, "upload"),
     calculateGrade(StatsMedian(allSamples.ping), baseline.ispPing * ValScale, "ping"))]

\* variant: the Result takes the smoothed display values (mean of the last
\* windowSize samples) instead of the medians
MakeResultSmoothed(allSamples, id) ==
  [id |-> id,
   timestamp |-> clock,
   download |-> RoundTenth(Mean(LastK(allSamples.down, windowSize))),
   upload |-> RoundTenth(Mean(LastK(allSamples.up, windowSize))),
   ping |-> RoundUnit(Mean(LastK(allSamples.ping, windowSize))),
   stats |-> ResultStats(allSamples)]

\* the finished Result assembled by the completion updater; networkType,
\* location, the server and the stats other than jitter and grade are left
\* out
MakeResult(allSamples, id) ==
  [id |-> id,
   timestamp |-> clock,
   download |-> RoundTenth(StatsMedian(allSamples.down)),
   upload |-> RoundTenth(StatsMedian(allSamples.up)),
   ping |-> RoundUnit(StatsMedian(allSamples.ping)),
   stats |-> ResultStats(allSamples)]

\* variant: the Result is pushed at the end and the first 50 are dropped
AppendResultAtEnd(result, prevHistory) == LastK(prevHistory \o <<result>>, HistoryCap)

\* [result, ...prevHistory].slice(0, 50)
AppendResult(result, prevHistory) == FirstK(<<result>> \o prevHistory, HistoryCap)

\* variant: the incognito test is inverted
SaveToHistoryInverted(incognito, result, prevHistory) ==
  IF incognito THEN FirstK(<<result>> \o prevHistory, HistoryCap) ELSE prevHistory

\* variant: the Result is saved whatever the incognito flag
SaveToHistoryAlways(incognito, result, prevHistory) ==
  FirstK(<<result>> \o prevHistory, HistoryCap)

\* if (!incognitoRef.current) setHistory(...)
SaveToHistory(incognito, result, prevHistory) ==
  IF ~incognito THEN AppendResult(result, prevHistory) ELSE prevHistory

\* the closures left when the run at index i has ended: nothing refers to
\* its step callbacks and buffers any more
Ended(rs, i) == SubSeq(rs, 1, i - 1) \o SubSeq(rs, i + 1, Len(rs))

\* the re-render after frame callbacks: React runs the queued completion
\* updater of setSamples, commits, and, when History changed, runs the save
\* effect with its re-render
Render ==
  /\ historyLoaded
  /\ \E i \in 1..Len(runs) :
       /\ runs[i].pc = "finishing"
       /\ LET allSamples == [samples EXCEPT !.up = runs[i].buf]
              result == MakeResult(allSamples, nextId)
          IN /\ download' = result.download
             /\ upload' = result.upload
             /\ ping' = result.ping
             /\ status' = "done"
             /\ closureStatus' = "done"
             /\ phase' = "null"
             /\ LET saved == SaveToHistory(incognitoRef, result, history)
                IN history' = IF saved = history THEN history
                              ELSE Retain(saved, dataRetention, clock)
             /\ pendingModal' = pendingModal + 1
             /\ samples' = allSamples
             /\ nextId' = nextId + 1
             /\ runs' = Ended(runs, i)
  /\ stored' = IF history' = history THEN stored ELSE Stringify(history')
  /\ UNCHANGED <<progress, historyLoaded, incognitoMode, incognitoRef,
                 testProfile, showResultsModal, calls, rejected>>
  /\ UNCHANGED retentionVars
  /\ UNCHANGED baselineVars
  /\ UNCHANGED callVars
  /\ UNCHANGED serverVars

\* Clear All History (src/components/Logo.tsx), with its synchronous re-render
ClearHistory ==
  /\ historyLoaded
  /\ history # <<>>
  /\ history' = <<>>
  /\ stored' = Stringify(<<>>)
  /\ UNCHANGED <<status, closureStatus, phase, progress, download, upload,
                 ping, samples, historyLoaded, incognitoMode, incognitoRef,
                 testProfile, showResultsModal, pendingModal, runs, nextId,
                 calls, rejected>>
  /\ UNCHANGED retentionVars
  /\ UNCHANGED baselineVars
  /\ UNCHANGED callVars
  /\ UNCHANGED serverVars

\* a retention setting changes (src/components/Logo.tsx): the synchronous
\* re-render runs the save effect of the settings and the save effect of
\* History with the new settings
SetDataRetention(settings) ==
  /\ historyLoaded
  /\ dataRetention' = settings
  /\ storedRetention' = settings
  /\ history' = Retain(history, settings, clock)
  /\ stored' = Stringify(history')
  /\ UNCHANGED <<status, closureStatus, phase, progress, download, upload,
                 ping, samples, historyLoaded, incognitoMode, incognitoRef,
                 testProfile, showResultsModal, pendingModal, runs, nextId,
                 calls, rejected, clock>>
  /\ UNCHANGED baselineVars
  /\ UNCHANGED callVars
  /\ UNCHANGED serverVars

\* the Max History Entries select
SetMaxEntries(n) ==
  /\ n # dataRetention.maxEntries
  /\ SetDataRetention([dataRetention EXCEPT !.maxEntries = n])

\* the Auto-delete old data switch
ToggleAutoDelete ==
  SetDataRetention([dataRetention EXCEPT !.autoDelete = ~dataRetention.autoDelete])

\* the Delete after select, shown while auto-delete is on
SetDeleteAfterDays(d) ==
  /\ dataRetention.autoDelete
  /\ d # dataRetention.deleteAfterDays
  /\ SetDataRetention([dataRetention EXCEPT !.deleteAfterDays = d])

\* a day passes: Date.now() grows and nothing of the page runs
Tick ==
  /\ clock < Today + MaxDays * HoursPerDay
  /\ clock' = clock + HoursPerDay
  /\ UNCHANGED <<status, closureStatus, phase, progress, download, upload,
                 ping, samples, history, historyLoaded, incognitoMode,
                 incognitoRef, testProfile, showResultsModal, pendingModal,
                 runs, stored, nextId, calls, rejected, dataRetention,
                 storedRetention>>
  /\ UNCHANGED baselineVars
  /\ UNCHANGED callVars
  /\ UNCHANGED serverVars

\* variant: leaving the page during a run saves the live values as a Result
StorageAfterLeavingFlushed ==
  IF status = "running"
  THEN Stringify(FirstK(<<[id |-> nextId, timestamp |-> clock, download |-> download,
                           upload |-> upload, ping |-> ping]>> \o history,
                        HistoryCap))
  ELSE stored

\* the storage item is written by the save effect only: leaving the page
\* writes nothing
StorageAfterLeaving == stored

\* the user leaves the page: the component, its closures and timers are gone;
\* only localStorage survives for the next visit
NavigateAway ==
  /\ historyLoaded
  /\ status' = "idle"
  /\ closureStatus' = "idle"
  /\ phase' = "null"
  /\ progress' = 0
  /\ download' = 0
  /\ upload' = 0
  /\ ping' = 0
  /\ samples' = EmptySamples
  /\ history' = <<>>
  /\ historyLoaded' = FALSE
  /\ incognitoMode' = FALSE
  /\ incognitoRef' = FALSE
  /\ testProfile' = "standard"
  /\ showResultsModal' = FALSE
  /\ pendingModal' = 0
  /\ runs' = <<>>
  /\ stored' = StorageAfterLeaving
  /\ dataRetention' = DefaultRetention
  /\ baseline' = DefaultBaseline
  /\ UNCHANGED <<nextId, calls, rejected, storedRetention, clock, storedBaseline>>
  /\ UNCHANGED callVars
  /\ UNCHANGED serverVars

\* an ISP Baseline input changes: setIspDown(clamp(v, 1, 2000)) etc., and
\* the save effect of the baseline in the re-render
SetBaseline(field, v) ==
  LET
    \* Math.min(Math.max(value, min), max)
    clamp(value, min, max) == IF value < min THEN min ELSE IF value > max THEN max ELSE value
    \* the upper limits of the three ISP Baseline inputs
    BaselineMax == [ispDown |-> 2000, ispUp |-> 2000, ispPing |-> 200]
  IN
      /\ historyLoaded
      /\ baseline' = [baseline EXCEPT ![field] = clamp(v, 1, BaselineMax[field])]
      /\ baseline' # baseline
      /\ storedBaseline' = StringifyBaseline(baseline')
      /\ UNCHANGED <<status, closureStatus, phase, progress, download, upload,
                     ping, samples, history, historyLoaded, incognitoMode,
                     incognitoRef, testProfile, showResultsModal, pendingModal,
                     runs, stored, nextId, calls, rejected>>
      /\ UNCHANGED retentionVars
      /\ UNCHANGED callVars
      /\ UNCHANGED serverVars

Next ==
  \/ LoadEffect
  \/ \E b \in BOOLEAN : calls < MaxCalls /\ ClickStart(b)
  \/ calls < MaxCalls /\ ClickRunAgain
  \/ CloseModal
  \/ ModalTimer
  \/ \E p \in Profiles : SetTestProfile(p)
  \/ \E i \in 1..Len(runs), d \in Delays :
       \/ \E v \in OneValue("ping") : PingStep(i, d, v)
       \/ \E v \in OneValue("download") : DownloadStep(i, d, v)
       \/ \E v \in OneValue("upload") : UploadStep(i, d, v)
  \/ Render
  \/ ClearHistory
  \/ NavigateAway

\* the lifecycle of the page: several runs, coarse frame gaps
Spec == Init /\ [][Next]_vars

InitEmpty == Init /\ stored = NoItem

NextTiming ==
  \/ LoadEffect
  \/ \E b \in BOOLEAN : calls < MaxRuns /\ ClickStart(b)
  \/ \E p \in Profiles : SetTestProfile(p)
  \/ \E i \in 1..Len(runs), d \in FineDelays :
       \/ \E v \in OneValue("ping") : PingStep(i, d, v)
       \/ \E v \in OneValue("download") : DownloadStep(i, d, v)
       \/ \E v \in OneValue("upload") : UploadStep(i, d, v)
  \/ Render

\* the timing of a run: irregular frame gaps around both cadences
SpecTiming == InitEmpty /\ [][NextTiming]_vars

NextValues ==
  \/ LoadEffect
  \/ \E b \in BOOLEAN : calls < MaxValueRuns /\ ClickStart(b)
  \/ \E p \in Profiles : SetTestProfile(p)
  \/ \E i \in 1..Len(runs), d \in SteadyDelays :
       \/ \E v \in SampleValues("ping") : PingStep(i, d, v)
       \/ \E v \in SampleValues("download") : DownloadStep(i, d, v)
       \/ \E v \in SampleValues("upload") : UploadStep(i, d, v)
  \/ Render

\* the values of a run: varying readings, buffers of one to three samples
SpecValues == InitEmpty /\ [][NextValues]_vars

InitStored == Init /\ stored = Stringify(Prefilled(HistoryCap - 1))

NextRetention ==
  \/ LoadEffect
  \/ \E b \in BOOLEAN : calls < MaxRetentionRuns /\ ClickStart(b)
  \/ \E i \in 1..Len(runs), d \in LongDelays :
       \/ \E v \in OneValue("ping") : PingStep(i, d, v)
       \/ \E v \in OneValue("download") : DownloadStep(i, d, v)
       \/ \E v \in OneValue("upload") : UploadStep(i, d, v)
  \/ Render
  \/ \E n \in {25, 50, 100, 250, 500} : SetMaxEntries(n)
  \/ ToggleAutoDelete
  \/ \E d \in {7, 14, 30, 60, 90} : SetDeleteAfterDays(d)
  \/ Tick
  \/ NavigateAway

\* retention: a stored History of 49 Results of the last 49 days, the
\* retention settings, and days passing
SpecRetention == InitStored /\ [][NextRetention]_vars

InitUnparsable ==
  LET
    \* baseline items left by earlier visits or by other writers of the storage
    BaselineStoredValues ==
      LET
        \* values of the baseline item: missing, not valid JSON, or the JSON text of
        \* an object with some of the fields ispDown, ispUp, ispPing
        NoBaseline == [present |-> FALSE, parsable |-> FALSE, value |-> [ispDown |-> 0]]
        UnparsableBaseline == [present |-> TRUE, parsable |-> FALSE, value |-> [ispDown |-> 0]]
      IN
          {NoBaseline, UnparsableBaseline,
           StringifyBaseline([ispDown |-> 500, ispUp |-> 100, ispPing |-> 10]),
           StringifyBaseline([ispDown |-> 500])}
  IN
      /\ Fresh
      /\ stored = Unparsable
      /\ nextId = HistoryCap + 1
      /\ calls = 0
      /\ rejected = 0
      /\ dataRetention = DefaultRetention
      /\ storedRetention = DefaultRetention
      /\ clock = Today
      /\ baseline = DefaultBaseline
      /\ storedBaseline \in BaselineStoredValues
      /\ webhooks = <<>>
      /\ callArgs = <<>>
      /\ callResult = <<>>

NextLoad ==
  \/ LoadEffect
  \/ \E b \in BOOLEAN : calls < MaxRuns /\ ClickStart(b)
  \/ \E i \in 1..Len(runs), d \in LongDelays :
       \/ \E v \in OneValue("ping") : PingStep(i, d, v)
       \/ \E v \in OneValue("download") : DownloadStep(i, d, v)
       \/ \E v \in OneValue("upload") : UploadStep(i, d, v)
  \/ Render
  \/ \E v \in {0, 100, 5000} : SetBaseline("ispDown", v)

\* one visit of the page that finds a history item that is not JSON and any
\* of the baseline items
SpecLoad == InitUnparsable /\ [][NextLoad]_vars

\* ------------------------------------------------------ history analytics
\* the values of one metric over a history
Metric(h, f) == [j \in DOMAIN h |-> h[j][f]]

\* history.length times the deviation of x from the mean of the values:
\* length * (avg - x)
Below(values, x) == Sum(values) - Len(values) * x

\* length squared times the population variance of the values
ScaledVariance(values) ==
  Len(values) * Sum([j \in DOMAIN values |-> values[j] * values[j]]) - Sum(values) * Sum(values)

\* variant: threshold = 1
DropsBelowOneSigma(values, x) ==
  /\ Below(values, x) > 0
  /\ Below(values, x) * Below(values, x) > ScaledVariance(values)

\* x < avg - threshold * std with threshold = 2: both sides are taken times
\* history.length and squared, the root being non-negative
DropsBelow(values, x) ==
  /\ Below(values, x) > 0
  /\ Below(values, x) * Below(values, x) > 4 * ScaledVariance(values)

\* Math.round((part / whole) * 100) for part >= 0 and whole > 0
RoundPercent(part, whole) == (200 * part + whole) \div (2 * whole)

\* variant: the severity looks at the deviation before it is rounded
SeverityUnrounded(part, whole, limit) ==
  IF 100 * part > limit * whole THEN "critical" ELSE "warning"

\* severity: dropPercent > 50 ? 'critical' : 'warning' (100 for a spike)
Severity(part, whole, limit) ==
  IF RoundPercent(part, whole) > limit THEN "critical" ELSE "warning"

RECURSIVE Detected(_, _)
Detected(tests, h) ==
  LET
    \* the body of the forEach: what one test pushes to detected
    DetectedFor(test, results) ==
      LET
        \* x > avg + threshold * std
        SpikesAbove(values, x) ==
          /\ Below(values, x) < 0
          /\ Below(values, x) * Below(values, x) > 4 * ScaledVariance(values)
        Anomaly(t, type, part, whole, limit) ==
          [id |-> t.id, timestamp |-> t.timestamp, type |-> type,
           percent |-> RoundPercent(part, whole),
           severity |-> Severity(part, whole, limit)]
      IN
          LET downs == Metric(results, "download")
              ups == Metric(results, "upload")
              pings == Metric(results, "ping")
          IN (IF DropsBelow(downs, test.download)
              THEN <<Anomaly(test, "download_drop", Below(downs, test.download), Sum(downs), 50)>>
              ELSE <<>>)
             \o (IF DropsBelow(ups, test.upload)
                 THEN <<Anomaly(test, "upload_drop", Below(ups, test.upload), Sum(ups), 50)>>
                 ELSE <<>>)
             \o (IF SpikesAbove(pings, test.ping)
                 THEN <<Anomaly(test, "ping_spike", 0 - Below(pings, test.ping), Sum(pings), 100)>>
                 ELSE <<>>)
  IN
      IF tests = <<>> THEN <<>>
      ELSE DetectedFor(Head(tests), h) \o Detected(Tail(tests), h)

\* variant: every Result of the history is scanned
anomaliesUnwindowed(h) ==
  IF Len(h) < 5 THEN <<>> ELSE FirstK(Detected(h, h), 5)

\* the anomalies memo
anomalies(h) ==
  IF Len(h) < 5 THEN <<>> ELSE FirstK(Detected(FirstK(h, 10), h), 5)

HistoryWith(n, odd, dl, ul, pg) ==
  [j \in 1..n |->
     [id |-> n + 1 - j, timestamp |-> Today - j,
      download |-> IF j \in odd THEN dl ELSE 200,
      upload |-> IF j \in odd THEN ul ELSE 100,
      ping |-> IF j \in odd THEN pg ELSE 20]]

AnomalyInputs ==
  LET
    \* histories of n Results, newest first, all with the same values except
    \* those at the given positions
    Odd(n) == {{}, {1}, {1, 2}, {n}, {2, n}}
  IN
      {[history |-> HistoryWith(n, odd, dl, ul, pg)] :
         n \in {4, 5, 6, 12, 20}, odd \in UNION {Odd(k) : k \in {4, 5, 6, 12, 20}},
         dl \in {200, 97, 80, 300}, ul \in {100, 20}, pg \in {20, 5, 60}}

CallAnomalies == Return(anomalies(callArgs.history))

\* the anomalies of histories with odd Results at the front and at the back
SpecAnomalies == InitCall(AnomalyInputs) /\ [][CallAnomalies]_vars

ShortHistoryInputs ==
  LET
    \* every history of 5 or 6 Results, newest first, each Result with one of
    \* four combinations of download, upload and ping
    ResultValues ==
      {[download |-> 200, upload |-> 100, ping |-> 20],
       [download |-> 1, upload |-> 100, ping |-> 500],
       [download |-> 1000, upload |-> 0, ping |-> 1],
       [download |-> 0, upload |-> 40, ping |-> 20]}
    ShortHistory(values) ==
      [j \in DOMAIN values |->
         [id |-> Len(values) + 1 - j, timestamp |-> Today - j,
          download |-> values[j].download, upload |-> values[j].upload,
          ping |-> values[j].ping]]
  IN
      {[history |-> ShortHistory(v)] : v \in [1..5 -> ResultValues] \cup [1..6 -> ResultValues]}

\* the anomalies of all short histories over a few values
SpecShortHistories == InitCall(ShortHistoryInputs) /\ [][CallAnomalies]_vars

\* new Date(timestamp).getHours(), for a time zone whose days begin at
\* multiples of 24 hours
HourOf(timestamp) == timestamp % HoursPerDay

\* Object.entries(hourlyData).map(...): one entry per hour of the history,
\* in ascending order of the hour
hourlyAverages(h) ==
  LET
    \* one entry of hourlyAverages: the tests of the history made at this hour
    HourlyAverage(results, hour) ==
      LET downloads == Metric(SelectSeq(results, LAMBDA test : HourOf(test.timestamp) = hour), "download")
      IN [hour |-> hour,
          avgDown |-> Sum(downloads) \div Len(downloads),
          testCount |-> Len(downloads)]
  IN
      LET hours == SelectSeq([k \in 1..HoursPerDay |-> k - 1],
                             LAMBDA x : \E j \in DOMAIN h : HourOf(h[j].timestamp) = x)
      IN [k \in DOMAIN hours |-> HourlyAverage(h, hours[k])]

\* insertion into a list sorted by (a, b) => b.avgDown - a.avgDown, before
\* the first entry that is not faster
RECURSIVE InsertBySpeed(_, _)
InsertBySpeed(x, sorted) ==
  IF sorted = <<>> THEN <<x>>
  ELSE IF Head(sorted).avgDown <= x.avgDown THEN <<x>> \o sorted
  ELSE <<Head(sorted)>> \o InsertBySpeed(x, Tail(sorted))

\* variant: the list is sorted by (a, b) => a.avgDown - b.avgDown
RECURSIVE sortedBySpeedAscending(_)
sortedBySpeedAscending(averages) ==
  IF averages = <<>> THEN <<>>
  ELSE LET rest == sortedBySpeedAscending(Tail(averages))
           x == Head(averages)
           smaller == SelectSeq(rest, LAMBDA y : y.avgDown < x.avgDown)
           others == SelectSeq(rest, LAMBDA y : y.avgDown >= x.avgDown)
       IN smaller \o <<x>> \o others

\* [...hourlyAverages].sort((a, b) => b.avgDown - a.avgDown), a stable sort
RECURSIVE sortedBySpeed(_)
sortedBySpeed(averages) ==
  IF averages = <<>> THEN <<>>
  ELSE InsertBySpeed(Head(averages), sortedBySpeed(Tail(averages)))

\* the peakAnalysis memo (null is NoPeakAnalysis); periodAverages is left out
peakAnalysis(h) ==
  LET
    NoPeakAnalysis == [present |-> FALSE]
  IN
      IF Len(h) < 3 THEN NoPeakAnalysis
      ELSE IF Len(hourlyAverages(h)) < 2 THEN NoPeakAnalysis
      ELSE LET sorted == sortedBySpeed(hourlyAverages(h))
               bestHour == sorted[1]
               worstHour == sorted[Len(sorted)]
           IN [present |-> TRUE,
               bestHour |-> bestHour,
               worstHour |-> worstHour,
               speedDifference |-> bestHour.avgDown - worstHour.avgDown,
               hourlyData |-> hourlyAverages(h)]

PeakInputs ==
  LET
    PeakResults ==
      LET
        \* histories of up to 4 Results, newest first, made at 9:00 and 20:00 of
        \* one day and 9:00 of the next; the downloads are multiples of 12, so that
        \* the mean of up to 4 of them is exact
        PeakTimes == {Today + 9, Today + 20, Today + 33}
      IN
                       [timestamp : PeakTimes, download : {60, 120}]
  IN
      {[history |-> v] :
         v \in {w \in UNION {[1..n -> PeakResults] : n \in 0..4} :
                  \A j \in 1..(Len(w) - 1) : w[j].timestamp >= w[j + 1].timestamp}}

CallPeakAnalysis == Return(peakAnalysis(callArgs.history))

\* the peak analysis of short histories over one to three hour groups
SpecPeak == InitCall(PeakInputs) /\ [][CallPeakAnalysis]_vars

\* ------------------------------------------------------- smart insights
\* an entry of the insights list; the icon and the message are left out
Insight(title, type) == [title |-> title, type |-> type]

\* the Result has a stats block: latest?.stats
HasStats(r) == "stats" \in DOMAIN r

\* ISP comparison insight: downPerformance = (avgDown / ispDown) * 100, for
\* ispDown > 0
BaselineInsight(h, ispDown) ==
  LET downs == Metric(h, "download")
  IN IF 100 * Sum(downs) >= 90 * ispDown * Len(h)
     THEN <<Insight("Great Performance", "success")>>
     ELSE IF 100 * Sum(downs) < 70 * ispDown * Len(h)
     THEN <<Insight("Below Expected", "warning")>>
     ELSE <<>>

\* Peak hour insight
PeakInsight(h) ==
  IF peakAnalysis(h).present /\ peakAnalysis(h).speedDifference > 20
  THEN <<Insight("Best Testing Time", "tip")>>
  ELSE <<>>

\* Stability insight, on latest = history[0]
StabilityInsight(h) ==
  IF ~HasStats(h[1]) THEN <<>>
  ELSE IF h[1].stats.stabilityScore >= 85
  THEN <<Insight("Stable Connection", "success")>>
  ELSE IF h[1].stats.stabilityScore < 60
  THEN <<Insight("Unstable Connection", "warning")>>
  ELSE <<>>

\* Jitter insight for gaming
JitterInsight(h) ==
  IF HasStats(h[1]) /\ h[1].stats.jitter > 10
  THEN <<Insight("Gaming Alert", "tip")>>
  ELSE IF HasStats(h[1]) /\ h[1].stats.jitter <= 5
  THEN <<Insight("Gaming Ready", "success")>>
  ELSE <<>>

\* Anomaly insight
AnomalyInsight(h) ==
  LET criticalCount == Len(SelectSeq(anomalies(h), LAMBDA a : a.severity = "critical"))
  IN IF Len(anomalies(h)) > 0 /\ criticalCount > 0
     THEN <<Insight("Issues Detected", "warning")>>
     ELSE <<>>

\* Test frequency insight: testsPerWeek = (length / daysCovered) * 7 >= 7,
\* daysCovered being the age of the oldest Result in days; a zero age gives
\* Infinity, a negative one a negative rate
FrequencyInsight(h, now) ==
  LET age == now - h[Len(h)].timestamp
  IN IF Len(h) >= 5 /\ age >= 0 /\ Len(h) * HoursPerDay >= age
     THEN <<Insight("Good Testing Habit", "info")>>
     ELSE <<>>

\* h.networkType || 'unknown'
TypeOf(r) == IF "networkType" \in DOMAIN r THEN r.networkType ELSE "unknown"

\* Object.keys(typeGroups): the types in the order of their first Result
RECURSIVE TypeKeys(_)
TypeKeys(h) ==
  IF h = <<>> THEN <<>>
  ELSE LET before == TypeKeys(FirstK(h, Len(h) - 1))
           type == TypeOf(h[Len(h)])
       IN IF \E k \in DOMAIN before : before[k] = type
          THEN before ELSE Append(before, type)

\* a.avg - b.avg, times both counts
AvgDifference(a, b) == a.sum * b.count - b.sum * a.count

\* Network type comparison: the group of the Results without a type is left
\* out of typeCount and kept in typeAvgs
NetworkInsight(h) ==
  LET
    \* one entry of typeAvgs; avg is the quotient sum / count
    TypeAverage(results, type) ==
      LET speeds == Metric(SelectSeq(results, LAMBDA r : TypeOf(r) = type), "download")
      IN [type |-> type, sum |-> Sum(speeds), count |-> Len(speeds)]
    \* the extremes of typeAvgs sorted by (a, b) => b.avg - a.avg
    FastestType(avgs) ==
      avgs[CHOOSE k \in DOMAIN avgs : \A j \in DOMAIN avgs : AvgDifference(avgs[k], avgs[j]) >= 0]
    SlowestType(avgs) ==
      avgs[CHOOSE k \in DOMAIN avgs : \A j \in DOMAIN avgs : AvgDifference(avgs[k], avgs[j]) <= 0]
  IN
      LET keys == TypeKeys(h)
          typeCount == Len(SelectSeq(keys, LAMBDA k : k # "unknown"))
          typeAvgs == [k \in DOMAIN keys |-> TypeAverage(h, keys[k])]
          first == FastestType(typeAvgs)
          last == SlowestType(typeAvgs)
      IN IF typeCount >= 2 /\ AvgDifference(first, last) > 30 * first.count * last.count
         THEN <<Insight("Network Comparison", "info")>>
         ELSE <<>>

\* the insights pushed by the seven rules, in the order of the pushes
ProducedInsights(h, ispDown, now) ==
  BaselineInsight(h, ispDown) \o PeakInsight(h) \o StabilityInsight(h)
    \o JitterInsight(h) \o AnomalyInsight(h) \o FrequencyInsight(h, now)
    \o NetworkInsight(h)

\* variant: the warnings are moved to the front before the list is cut
smartInsightsBySeverity(h, ispDown, now) ==
  IF Len(h) = 0 THEN <<>>
  ELSE LET produced == ProducedInsights(h, ispDown, now)
       IN FirstK(SelectSeq(produced, LAMBDA x : x.type = "warning")
                   \o SelectSeq(produced, LAMBDA x : x.type # "warning"), 4)

\* the smartInsights memo
smartInsights(h, ispDown, now) ==
  IF Len(h) = 0 THEN <<>>
  ELSE FirstK(ProducedInsights(h, ispDown, now), 4)

InsightInputs ==
  LET
    \* the stats block of the latest Result: none, or a stability score and a
    \* jitter on either side of the thresholds of the rules
    InsightStats ==
      {<<>>} \cup {<<[stabilityScore |-> s, jitter |-> j]>> : s \in {90, 70, 50}, j \in {3, 7, 12}}
    \* n Results, newest first, one every `every` days at 9:00, the second one
    \* with its own download and, if spread, made an hour later
    InsightResult(n, j, dl, stats, spread, kind, every) ==
      LET
        InsightTypes(mix, pos) ==
          IF mix = "none" \/ (mix = "partly" /\ pos = 2) THEN <<>>
          ELSE IF pos % 2 = 1 THEN <<"wifi">> ELSE <<"ethernet">>
      IN
          LET base == [id |-> n + 1 - j,
                       timestamp |-> Today - 15 - HoursPerDay * every * (j - 1)
                                     + (IF spread /\ j = 2 THEN 1 ELSE 0),
                       download |-> IF j = 2 THEN dl ELSE 200,
                       upload |-> 100, ping |-> 20]
              typed == IF InsightTypes(kind, j) = <<>> THEN base
                       ELSE base @@ [networkType |-> InsightTypes(kind, j)[1]]
          IN IF j = 1 /\ stats # <<>> THEN typed @@ [stats |-> stats[1]] ELSE typed
  IN
      {[history |-> [j \in 1..n |-> InsightResult(n, j, dl, stats, spread, kind, every)],
        ispDown |-> isp] :
         n \in {0, 1, 5, 6, 20}, dl \in {200, 97, 20}, stats \in InsightStats,
         spread \in BOOLEAN, kind \in {"none", "mixed", "partly"}, every \in {1, 3},
         isp \in {100, 250, 300}}

CallSmartInsights == Return(smartInsights(callArgs.history, callArgs.ispDown, clock))

\* the insights of histories on which every subset of the rules fires
SpecInsights == InitCall(InsightInputs) /\ [][CallSmartInsights]_vars

\* ----------------------------------------------------------- achievements
\* the ids of ACHIEVEMENTS, in the order of the array
ACHIEVEMENTS ==
  <<"speed_demon", "century_club", "gigabit_glory", "stable_connection",
    "rock_solid", "quick_reflexes", "low_latency", "gaming_ready",
    "first_test", "dedicated_tester", "data_collector", "speed_scientist",
    "honor_roll", "consistent_performer", "network_explorer", "home_mapper">>

\* r.stats?.field || fallback: the fallback replaces a missing and a zero
\* value alike
StatOr(r, field, fallback) ==
  IF HasStats(r) /\ field \in DOMAIN r.stats /\ r.stats[field] # 0
  THEN r.stats[field] ELSE fallback

\* gaming_ready: h.some(r => (r.stats?.jitter || 999) < 5)
GamingReady(h) == \E j \in DOMAIN h : StatOr(h[j], "jitter", 999 * ValScale) < 5 * ValScale

\* variant: 'Complete your first test' looks at the tests made so far
FirstTestEver(h) == nextId > HistoryCap + 1

\* first_test: h.length >= 1
FirstTest(h) == Len(h) >= 1

\* achievement.condition(history); speeds, pings and jitters are in
\* thousandths of Mbps and ms
condition(id, h) ==
  LET
    \* r.stats?.grade, "" standing for undefined
    GradeOf(r) == IF HasStats(r) /\ "grade" \in DOMAIN r.stats THEN r.stats.grade ELSE ""
    \* history.map(r => r[field]).filter(Boolean) as a Set
    TruthyValues(results, field) ==
      {results[j][field] : j \in {i \in DOMAIN results : field \in DOMAIN results[i] /\ results[i][field] # ""}}
    \* the number of Results of the history that satisfy the test
    CountOf(results, Test(_)) == Cardinality({j \in DOMAIN results : Test(results[j])})
  IN
      CASE id = "speed_demon" -> \E j \in DOMAIN h : h[j].download >= 500 * ValScale
        [] id = "century_club" -> \E j \in DOMAIN h : h[j].download >= 100 * ValScale
        [] id = "gigabit_glory" -> \E j \in DOMAIN h : h[j].download >= 1000 * ValScale
        [] id = "stable_connection" -> \E j \in DOMAIN h : StatOr(h[j], "stabilityScore", 0) >= 90
        [] id = "rock_solid" -> CountOf(h, LAMBDA r : StatOr(r, "stabilityScore", 0) >= 95) >= 3
        [] id = "quick_reflexes" -> \E j \in DOMAIN h : h[j].ping < 10 * ValScale
        [] id = "low_latency" -> \E j \in DOMAIN h : h[j].ping < 20 * ValScale
        [] id = "gaming_ready" -> GamingReady(h)
        [] id = "first_test" -> FirstTest(h)
        [] id = "dedicated_tester" -> Len(h) >= 10
        [] id = "data_collector" -> Len(h) >= 25
        [] id = "speed_scientist" -> Len(h) >= 50
        [] id = "honor_roll" -> \E j \in DOMAIN h : GradeOf(h[j]) = "A+"
        [] id = "consistent_performer" ->
             IF Len(h) < 5 THEN FALSE
             ELSE \A j \in 1..5 : GradeOf(h[j]) \in {"A+", "A"}
        [] id = "network_explorer" ->
             {"wifi", "ethernet", "mobile"} \subseteq TruthyValues(h, "networkType")
        [] id = "home_mapper" -> Cardinality(TruthyValues(h, "location")) >= 3

\* the unlockedAchievements memo: recomputed from history at every render
\* in which history has changed
unlockedAchievements(h) == SelectSeq(ACHIEVEMENTS, LAMBDA id : condition(id, h))

Veteran(n) ==
  LET
    \* a stored History of n Results, newest first, whose three oldest Results
    \* carry what the achievements ask for and whose five newest have A grades
    VeteranResult(k, len) ==
      LET plain == [id |-> k, timestamp |-> Today - (len + 1 - k) * HoursPerDay,
                    download |-> IF k = 1 THEN 1000 * ValScale ELSE 50 * ValScale,
                    upload |-> 20 * ValScale,
                    ping |-> IF k = 1 THEN 5 * ValScale ELSE 30 * ValScale]
      IN IF k = 1
         THEN plain @@ [networkType |-> "mobile", location |-> "attic",
                        stats |-> [jitter |-> 3 * ValScale, stabilityScore |-> 96, grade |-> "A+"]]
         ELSE IF k = 2
         THEN plain @@ [networkType |-> "ethernet", location |-> "desk",
                        stats |-> [jitter |-> 8 * ValScale, stabilityScore |-> 96, grade |-> "B"]]
         ELSE IF k = 3
         THEN plain @@ [networkType |-> "wifi", location |-> "porch",
                        stats |-> [jitter |-> 8 * ValScale, stabilityScore |-> 95, grade |-> "B"]]
         ELSE IF k > len - 5
         THEN plain @@ [networkType |-> "wifi",
                        stats |-> [jitter |-> 8 * ValScale, stabilityScore |-> 70, grade |-> "A"]]
         ELSE plain
  IN
                  [i \in 1..n |-> VeteranResult(n + 1 - i, n)]

InitAchievements ==
  LET
    AchievementStoredValues ==
      {NoItem, Stringify(Veteran(HistoryCap - 1)), Stringify(Veteran(HistoryCap))}
  IN
      /\ Fresh
      /\ stored \in AchievementStoredValues
      /\ nextId = HistoryCap + 1
      /\ calls = 0
      /\ rejected = 0
      /\ dataRetention = DefaultRetention
      /\ storedRetention = DefaultRetention
      /\ clock = Today
      /\ baseline = DefaultBaseline
      /\ storedBaseline = StringifyBaseline(DefaultBaseline)
      /\ webhooks = <<>>
      /\ callArgs = <<>>
      /\ callResult = <<>>

NextAchievements ==
  \/ LoadEffect
  \/ \E b \in BOOLEAN : calls < MaxValueRuns /\ ClickStart(b)
  \/ \E i \in 1..Len(runs), d \in SteadyDelays :
       \/ \E v \in SampleValues("ping") : PingStep(i, d, v)
       \/ \E v \in OneValue("download") : DownloadStep(i, d, v)
       \/ \E v \in OneValue("upload") : UploadStep(i, d, v)
  \/ Render
  \/ ClearHistory
  \/ NavigateAway

\* achievements: a stored History that has unlocked all of them, runs that
\* push new Results in and the oldest out, and Clear All History
SpecAchievements == InitAchievements /\ [][NextAchievements]_vars

\* ------------------------------------------- speed endpoint (route.ts)
\* calculateGrade of the endpoint (its own 0-100 point scheme, not the
\* calculateGrade of the page)
calculateGradePoints(dl, ul, pg, jt) ==
  LET downloadScore == IF dl >= 500 THEN 40 ELSE IF dl >= 250 THEN 35
                       ELSE IF dl >= 100 THEN 30 ELSE IF dl >= 50 THEN 25
                       ELSE IF dl >= 25 THEN 20 ELSE IF dl >= 10 THEN 15 ELSE 10
      uploadScore == IF ul >= 100 THEN 25 ELSE IF ul >= 50 THEN 22
                     ELSE IF ul >= 25 THEN 18 ELSE IF ul >= 10 THEN 14 ELSE 10
      pingScore == IF pg <= 10 THEN 20 ELSE IF pg <= 20 THEN 17
                   ELSE IF pg <= 30 THEN 14 ELSE IF pg <= 50 THEN 11 ELSE 8
      jitterScore == IF jt <= 2 THEN 15 ELSE IF jt <= 5 THEN 12
                     ELSE IF jt <= 10 THEN 9 ELSE 6
      score == downloadScore + uploadScore + pingScore + jitterScore
  IN IF score >= 95 THEN "A+" ELSE IF score >= 90 THEN "A"
     ELSE IF score >= 85 THEN "A-" ELSE IF score >= 80 THEN "B+"
     ELSE IF score >= 75 THEN "B" ELSE IF score >= 70 THEN "B-"
     ELSE IF score >= 65 THEN "C+" ELSE IF score >= 60 THEN "C"
     ELSE IF score >= 55 THEN "C-" ELSE IF score >= 50 THEN "D" ELSE "F"

\* POST of /api/speed
POST(body, results) ==
  LET
    \* await request.json() rejects, or destructuring null throws: the catch
    \* block is entered
    BodyThrows(b) == b.kind \in {"invalid", "null"}
    \* the response of the catch block
    InvalidBodyResponse ==
      [status |-> 400, keys |-> {"success", "error"}, success |-> FALSE,
       error |-> "Invalid request body", data |-> <<>>]
    \* results.server once the override has been applied; the name is the list
    \* of the parts of the template string
    ServerOf(b) ==
      IF b.serverId # <<>> /\ b.serverId[1] # "" /\ b.serverId[1] # "auto"
      THEN [id |-> b.serverId[1], name |-> <<"Server ", b.serverId[1]>>,
            location |-> "Nearest Server"]
      ELSE [id |-> "auto", name |-> <<"Auto (Best)">>, location |-> "Nearest Server"]
  IN
      IF BodyThrows(body) THEN InvalidBodyResponse
      ELSE IF body.testType = <<"ping-only">>
      THEN [status |-> 200, keys |-> {"success", "data"}, success |-> TRUE, error |-> "",
            data |-> <<[ping |-> results.ping, jitter |-> results.jitter,
                        server |-> ServerOf(body)]>>]
      ELSE [status |-> 200, keys |-> {"success", "data"}, success |-> TRUE, error |-> "",
            data |-> <<[download |-> results.download, upload |-> results.upload,
                        ping |-> results.ping, jitter |-> results.jitter,
                        server |-> ServerOf(body),
                        grade |-> calculateGradePoints(results.download, results.upload,
                                                       results.ping, results.jitter)]>>]

PostInputs ==
  LET
    \* what simulateSpeedTest can return, Math.random() being any number: a few
    \* values of its ranges, in whole Mbps and ms
    SimulatedResults ==
      [download : {45, 120, 220}, upload : {9, 30, 110}, ping : {5, 25, 50}, jitter : {1, 4, 10}]
    \* request bodies: text that is not JSON, the JSON values null and 5 (any
    \* value that is neither null nor an object reads like 5), and objects with
    \* or without serverId and testType (a field is <<>> when missing)
    RequestBodies ==
      {[kind |-> k, serverId |-> <<>>, testType |-> <<>>] : k \in {"invalid", "null", "scalar"}}
        \cup [kind : {"object"},
              serverId : {<<>>, <<"">>, <<"auto">>, <<"fra1">>},
              testType : {<<>>, <<"ping-only">>, <<"full">>}]
  IN
                  {[body |-> b, results |-> r] : b \in RequestBodies, r \in SimulatedResults}

CallPOST == Return(POST(callArgs.body, callArgs.results))

\* POST requests to the speed endpoint
SpecPost == InitCall(PostInputs) /\ [][CallPOST]_vars

\* -------------------------------------------------------- webhooks route
\* a request field is <<>> when the body has no such field, else <<value>>;
\* an events value is an array of strings or something that cannot be
\* iterated (a number, null)
validEvents == {"test.started", "test.completed", "test.failed"}

\* strings that new URL(url) accepts, and some it throws on
ValidUrls == {"https://a.example/hook", "https://b.example/hook"}

\* values that generateId() returns
WebhookIds == {"wh_1", "wh_2"}

EventsArray(items) == [iterable |-> TRUE, items |-> items]

UnparsableBody == [parsable |-> FALSE, id |-> <<>>, url |-> <<>>, events |-> <<>>, active |-> <<>>]

Body(id, url, events, active) ==
  [parsable |-> TRUE, id |-> id, url |-> url, events |-> events, active |-> active]

ErrorResponse(code, message) ==
  [status |-> code, success |-> FALSE, error |-> message, data |-> <<>>]

DataResponse(code, data) ==
  [status |-> code, success |-> TRUE, error |-> "", data |-> data]

\* webhooks.has(id)
MapHas(store, id) == \E j \in DOMAIN store : store[j].id = id

\* the position of the entry of id
IndexOfId(store, id) == CHOOSE j \in DOMAIN store : store[j].id = id

\* the listed fields of an entry: everything but the secret
Listed(e) ==
  [id |-> e.id, url |-> e.url, events |-> e.events, active |-> e.active,
   createdAt |-> e.createdAt]

\* the first element of events that is not a valid event
FirstInvalid(items) ==
  LET bad == {j \in DOMAIN items : items[j] \notin validEvents}
  IN items[CHOOSE j \in bad : \A k \in bad : j <= k]

AllValid(items) == \A j \in DOMAIN items : items[j] \in validEvents

\* GET: the list of all webhooks
WebhooksGET(store) ==
  [store |-> store,
   response |-> DataResponse(200, [j \in DOMAIN store |-> Listed(store[j])])]

\* POST: create a webhook under the generated id
WebhooksPOST(store, body, id, now) ==
  LET
    \* the value that generateSecret() returns
    Secret == "whsec_1"
    \* webhooks.set(id, hook): an existing key keeps its place
    MapSet(map, key, hook) ==
      LET entry == [id |-> key, url |-> hook.url, events |-> hook.events,
                    secret |-> hook.secret, active |-> hook.active,
                    createdAt |-> hook.createdAt]
      IN IF MapHas(map, key)
           THEN [map EXCEPT ![IndexOfId(map, key)] = entry]
           ELSE Append(map, entry)
  IN
      LET requestedEvents ==
            IF body.events = <<>> THEN EventsArray(<<"test.completed">>)
            ELSE body.events[1]
      IN IF ~body.parsable
           THEN [store |-> store, response |-> ErrorResponse(400, "Invalid request body")]
         ELSE IF body.url = <<>>
           THEN [store |-> store, response |-> ErrorResponse(400, "URL is required")]
         ELSE IF body.url[1] \notin ValidUrls
           THEN [store |-> store, response |-> ErrorResponse(400, "Invalid URL format")]
         ELSE IF ~requestedEvents.iterable
           THEN [store |-> store, response |-> ErrorResponse(400, "Invalid request body")]
         ELSE IF ~AllValid(requestedEvents.items)
           THEN [store |-> store,
                 response |-> ErrorResponse(400, "Invalid event: " \o FirstInvalid(requestedEvents.items)
                                                 \o ". Valid events: test.started, test.completed, test.failed")]
         ELSE LET hook == [id |-> id, url |-> body.url[1], events |-> requestedEvents.items,
                           secret |-> Secret, active |-> TRUE, createdAt |-> now]
              IN [store |-> MapSet(store, id, hook),
                  response |-> DataResponse(201, <<hook>>)]

\* DELETE: remove the webhook named by the id query parameter
WebhooksDELETE(store, id) ==
  LET
    \* webhooks.delete(id)
    MapDelete(map, key) == SelectSeq(map, LAMBDA e : e.id # key)
  IN
      IF id = <<>> \/ id = <<"">>
        THEN [store |-> store, response |-> ErrorResponse(400, "Webhook ID is required")]
      ELSE IF ~MapHas(store, id[1])
        THEN [store |-> store, response |-> ErrorResponse(404, "Webhook not found")]
      ELSE [store |-> MapDelete(store, id[1]),
            response |-> [status |-> 200, success |-> TRUE, error |-> "", data |-> <<>>]]

\* PATCH: the fields are validated and assigned one after the other on the
\* object held by the Map
WebhooksPATCH(store, body) ==
  IF ~body.parsable
    THEN [store |-> store, response |-> ErrorResponse(400, "Invalid request body")]
  ELSE IF body.id = <<>> \/ body.id = <<"">>
    THEN [store |-> store, response |-> ErrorResponse(400, "Webhook ID is required")]
  ELSE IF ~MapHas(store, body.id[1])
    THEN [store |-> store, response |-> ErrorResponse(404, "Webhook not found")]
  ELSE
    LET i == IndexOfId(store, body.id[1])
        withUrl ==
          IF body.url # <<>> /\ body.url[1] \in ValidUrls
            THEN [store EXCEPT ![i].url = body.url[1]]
            ELSE store
        withEvents ==
          IF body.events # <<>>
            THEN [withUrl EXCEPT ![i].events = body.events[1].items]
            ELSE withUrl
        withActive ==
          IF body.active # <<>>
            THEN [withEvents EXCEPT ![i].active = body.active[1]]
            ELSE withEvents
    IN IF body.url # <<>> /\ body.url[1] \notin ValidUrls
         THEN [store |-> store, response |-> ErrorResponse(400, "Invalid URL format")]
       ELSE IF body.events # <<>> /\ ~body.events[1].iterable
         THEN [store |-> withUrl, response |-> ErrorResponse(400, "Invalid request body")]
       ELSE IF body.events # <<>> /\ ~AllValid(body.events[1].items)
         THEN [store |-> withUrl,
               response |-> ErrorResponse(400, "Invalid event: " \o FirstInvalid(body.events[1].items))]
       ELSE [store |-> withActive,
             response |-> DataResponse(200, <<Listed(withActive[i])>>)]

\* the requests that are sent
EventsValues ==
  LET
    NotIterable == [iterable |-> FALSE, items |-> <<>>]
  IN
      {<<>>, <<EventsArray(<<"test.completed">>)>>,
       <<EventsArray(<<"test.started", "test.failed">>)>>,
       <<EventsArray(<<"test.completed", "test.bogus">>)>>, <<NotIterable>>}

UrlValues ==
  LET
    InvalidUrls == {"not a url"}
  IN
                 {<<>>} \cup {<<u>> : u \in ValidUrls \cup InvalidUrls}

IdValues == {<<>>, <<"">>, <<"wh_0">>} \cup {<<w>> : w \in WebhookIds}

PatchBodies ==
  LET
    ActiveValues == {<<>>, <<TRUE>>, <<FALSE>>}
  IN
      {UnparsableBody}
        \cup {Body(id, u, e, a) : id \in IdValues, u \in UrlValues, e \in EventsValues,
                                 a \in ActiveValues}

Request(method, body) == [method |-> method, body |-> body]

\* the server handles one request; callArgs keeps the request and
\* callResult the response
Handle(request, outcome) ==
  /\ webhooks' = outcome.store
  /\ callArgs' = request
  /\ callResult' = <<outcome.response>>
  /\ UNCHANGED pageVars

HandleGET == Handle(Request("GET", UnparsableBody), WebhooksGET(webhooks))

HandlePOST ==
  LET
    PostBodies ==
      {UnparsableBody} \cup {Body(<<>>, u, e, <<>>) : u \in UrlValues, e \in EventsValues}
  IN
      \E body \in PostBodies, id \in WebhookIds :
        Handle(Request("POST", body), WebhooksPOST(webhooks, body, id, clock))

HandleDELETE ==
  \E id \in IdValues :
    Handle(Request("DELETE", Body(id, <<>>, <<>>, <<>>)), WebhooksDELETE(webhooks, id))

HandlePATCH ==
  \E body \in PatchBodies :
    Handle(Request("PATCH", body), WebhooksPATCH(webhooks, body))

InitWebhooks ==
  /\ InitPage
  /\ stored = NoItem
  /\ webhooks = <<>>
  /\ callArgs = Request("GET", UnparsableBody)
  /\ callResult = <<>>

NextWebhooks == HandleGET \/ HandlePOST \/ HandleDELETE \/ HandlePATCH

\* requests to the webhooks route
SpecWebhooks == InitWebhooks /\ [][NextWebhooks]_vars

\* ------------------------------------------------------------ properties
\* a measurement run is active: from the start call until its completion
\* has set status to done
Active == runs # <<>>

Ids(h) == {h[j].id : j \in DOMAIN h}

\* the completion updater of the run at index i runs in this step
Completes(i) ==
  /\ i \in DOMAIN runs
  /\ runs[i].pc = "finishing"
  /\ runs' = Ended(runs, i)
  /\ status' = "done"

Range(s) == {s[j] : j \in DOMAIN s}

\* the k-th smallest element of s, by counting
Kth(s, k) ==
  CHOOSE x \in Range(s) :
    /\ Cardinality({j \in DOMAIN s : s[j] < x}) < k
    /\ Cardinality({j \in DOMAIN s : s[j] <= x}) >= k

\* twice the median of a non-empty s
TwiceMedian(s) ==
  IF Len(s) % 2 = 1 THEN 2 * Kth(s, (Len(s) + 1) \div 2)
  ELSE Kth(s, Len(s) \div 2) + Kth(s, Len(s) \div 2 + 1)

\* r is the multiple of q nearest to m2 / 2, halves going up
IsRounded(r, m2, q) == r % q = 0 /\ 2 * r - q <= m2 /\ m2 < 2 * r + q

\* the live values are the rounded medians of the three raw buffers
LiveValuesFinal(dl, ul, pg, smp) ==
  /\ smp.down # <<>> /\ smp.up # <<>> /\ smp.ping # <<>>
  /\ IsRounded(dl, TwiceMedian(smp.down), ValScale \div 10)
  /\ IsRounded(ul, TwiceMedian(smp.up), ValScale \div 10)
  /\ IsRounded(pg, TwiceMedian(smp.ping), ValScale)

\* h2 is h with one new Result in front and, beyond the cap, without its last
Prepended(h, h2) ==
  /\ Len(h2) = Min(Len(h) + 1, HistoryCap)
  /\ h2[1].id \notin Ids(h)
  /\ \A j \in 2..Len(h2) : h2[j] = h[j - 1]

\* C1: a startTest call while a run is active changes nothing of the run:
\* neither its closure and buffers, nor the live values, progress, phase,
\* status, History or the incognito flag; and there is never a second run.
C1_StartWhileActive ==
  /\ [](Len(runs) <= 1)
  /\ [][(Active /\ calls' # calls) =>
          UNCHANGED <<runs, samples, ping, download, upload, progress, phase,
                      status, closureStatus, history, stored, incognitoRef,
                      incognitoMode, nextId, pendingModal>>]_vars

\* a start call was rejected while a run is in a phase with samples collected
C1_Witness ==
  /\ rejected > 0
  /\ Active
  /\ runs[1].pc = "download"
  /\ runs[1].buf # <<>>
  /\ samples.ping # <<>>

\* C2: the completion of a run started without incognito puts exactly one
\* new Result in front of History, and a new Result enters History in no
\* other step of the page.
C2_OneResultPerRun ==
  /\ [][\A i \in DOMAIN runs :
          (Completes(i) /\ ~runs[i].isIncognito) => Prepended(history, history')]_vars
  /\ [][(historyLoaded /\ Ids(history') \ Ids(history) # {}) =>
          /\ Cardinality(Ids(history') \ Ids(history)) = 1
          /\ \E i \in DOMAIN runs : Completes(i) /\ ~runs[i].isIncognito]_vars

\* two runs without incognito are done and History holds their two Results
C2_Witness ==
  /\ status = "done"
  /\ ~incognitoRef
  /\ nextId = HistoryCap + 3
  /\ Len(history) = 2
  /\ history[1].id = HistoryCap + 2
  /\ history[2].id = HistoryCap + 1

\* C3: the completion of a run started with incognito leaves History as it
\* is, sets status to done and phase to null, and sets the live values to
\* the rounded medians of the run's buffers.
C3_IncognitoKeepsHistory ==
  [][\A i \in DOMAIN runs :
       (Completes(i) /\ runs[i].isIncognito) =>
         /\ history' = history
         /\ status' = "done"
         /\ phase' = "null"
         /\ samples'.up = runs[i].buf
         /\ LiveValuesFinal(download', upload', ping', samples')]_vars

\* an incognito run is done on top of a stored History of 49 Results
C3_Witness ==
  /\ status = "done"
  /\ incognitoRef
  /\ nextId > HistoryCap + 1
  /\ history = Prefilled(HistoryCap - 1)
  /\ download > 0 /\ upload > 0 /\ ping > 0

\* C4: in every run the displayed phase goes ping, download, upload, done in
\* this order, one step at a time; only the first transition is a start
\* call, the others come from frame callbacks and the re-render alone; the
\* only other change is the loss of the phase when the page is left.
C4_PhaseOrder ==
  [][phase' # phase =>
       \/ phase = "null" /\ phase' = "ping" /\ status' = "running" /\ calls' = calls + 1
       \/ phase = "ping" /\ phase' = "download" /\ status' = "running" /\ calls' = calls
       \/ phase = "download" /\ phase' = "upload" /\ status' = "running" /\ calls' = calls
       \/ phase = "upload" /\ phase' = "null" /\ status' = "done" /\ calls' = calls
       \/ phase' = "null" /\ status' = "idle" /\ runs' = <<>>]_vars

\* a run went through all its phases and is done
C4_Witness ==
  status = "done" /\ phase = "null" /\ Len(samples.ping) = 2
    /\ Len(samples.down) = 1 /\ Len(samples.up) = 3

\* C6: a step callback ends its phase exactly when its timestamp is at least
\* phaseDuration after the phase start, and the phase never goes on past
\* such a frame, however many samples the buffer holds.
C6_PhaseEndsOnTime ==
  [][\A i \in DOMAIN runs :
       (i \in DOMAIN runs' /\ runs[i].pc \in Phases /\ runs'[i] # runs[i])
         => ((runs'[i].pc # runs[i].pc) <=> (runs'[i].elapsed >= runs[i].phaseDuration))]_vars

\* a one-sample ping phase and a three-sample download phase both ended, and
\* the upload phase is still open with two samples
C6_Witness ==
  /\ Len(runs) = 1
  /\ runs[1].pc = "upload"
  /\ Len(runs[1].buf) = 2
  /\ Len(samples.ping) = 1
  /\ Len(samples.down) = 3

\* C7 as stated: progress within 0..33.3, 33.3..66.7, 66.7..100 by phase
C7_Original ==
  status = "running" =>
    /\ phase = "ping" => (0 <= progress /\ progress * 10 <= 333 * PctScale)
    /\ phase = "download" => (333 * PctScale <= progress * 10 /\ progress * 10 <= 667 * PctScale)
    /\ phase = "upload" => (667 * PctScale <= progress * 10 /\ progress <= 100 * PctScale)

\* C7 (amended): during a run the reported progress never decreases and
\* stays within 0..33.34 in the ping phase, 33.3..66.7 in the download phase
\* and 66.66..100 in the upload phase.
C7_ProgressThirds ==
  /\ [](status = "running" =>
          /\ phase = "ping" => (0 <= progress /\ progress * 100 <= 3334 * PctScale)
          /\ phase = "download" => (333 * PctScale <= progress * 10 /\ progress * 10 <= 667 * PctScale)
          /\ phase = "upload" => (6666 * PctScale <= progress * 100 /\ progress <= 100 * PctScale))
  /\ [][(status = "running" /\ status' = "running") => progress' >= progress]_vars

\* the upload phase has just started and progress still shows 66.66
C7_Witness ==
  /\ status = "running"
  /\ phase = "upload"
  /\ progress * 100 < 6667 * PctScale
  /\ samples.down # <<>>

\* C8 as stated: a done run shows progress 100
C8_ProgressAtDone == status = "done" => progress = 100 * PctScale

\* C5: leaving the page while a run is active drops its closure and
\* buffers, writes nothing to the stored History, and every Result of
\* History and of the stored History was made by a completed run.
C5_AbortDiscards ==
  /\ [][(Active /\ historyLoaded /\ ~historyLoaded') =>
          /\ runs' = <<>>
          /\ samples' = EmptySamples
          /\ history' = <<>>
          /\ stored' = stored]_vars
  /\ [](\A id \in Ids(history) \cup Ids(stored.value) : id < nextId)

\* the only run started was left before it completed
C5_Witness ==
  /\ ~historyLoaded
  /\ calls = 1
  /\ rejected = 0
  /\ nextId = HistoryCap + 1
  /\ runs = <<>>
  /\ stored = Stringify(Prefilled(HistoryCap - 1))

\* C9: when a run is done the live download and upload are the median of
\* the raw buffer of their phase rounded to one decimal, the live ping the
\* median of the raw ping buffer rounded to an integer, and the saved Result
\* carries these values; the buffers in samples are the complete buffers of
\* the step callbacks.
C9_ResultFromMedians ==
  /\ [](status = "done" =>
          /\ LiveValuesFinal(download, upload, ping, samples)
          /\ ~incognitoRef =>
               /\ history # <<>>
               /\ history[1].download = download
               /\ history[1].upload = upload
               /\ history[1].ping = ping)
  /\ [][\A i \in DOMAIN runs :
          /\ (i \in DOMAIN runs' /\ runs[i].pc = "ping" /\ runs'[i].pc # "ping")
               => SubSeq(samples'.ping, 1, Len(runs[i].buf)) = runs[i].buf
          /\ (i \in DOMAIN runs' /\ runs[i].pc = "download" /\ runs'[i].pc # "download")
               => SubSeq(samples'.down, 1, Len(runs[i].buf)) = runs[i].buf
          /\ Completes(i) => samples'.up = runs[i].buf]_vars

\* a saved Result whose three values all differ from the smoothed values
C9_Witness ==
  /\ status = "done"
  /\ ~incognitoRef
  /\ history # <<>>
  /\ Len(samples.down) = 3 /\ Len(samples.up) = 3 /\ Len(samples.ping) = 3
  /\ history[1].download # RoundTenth(Mean(LastK(samples.down, windowSize)))
  /\ history[1].upload # RoundTenth(Mean(LastK(samples.up, windowSize)))
  /\ history[1].ping # RoundUnit(Mean(LastK(samples.ping, windowSize)))

\* C10: History never holds more than 50 Results, newest first; it changes
\* only by being cleared, by being loaded, or by one new Result put at
\* index 0 with the earlier ones shifted by one and the last one dropped at
\* the cap.
C10_HistoryBounded ==
  /\ [](/\ Len(history) <= HistoryCap
        /\ \A j \in 1..(Len(history) - 1) : history[j].id > history[j + 1].id)
  /\ [][history' # history =>
          \/ history' = <<>>
          \/ ~historyLoaded /\ history' = stored.value
          \/ Prepended(history, history')]_vars

\* History is full after two appends: the oldest stored Result is gone
C10_Witness ==
  /\ Len(history) = HistoryCap
  /\ history[1].id = HistoryCap + 2
  /\ history[HistoryCap].id = 2

\* C11 as stated: the completion of a run without incognito leaves in
\* History the maxEntries most recent Results, the new one included
C11_RetainsMaxEntries ==
  [][\A i \in DOMAIN runs :
       (Completes(i) /\ ~runs[i].isIncognito /\ ~dataRetention.autoDelete) =>
         /\ Len(history') = Min(Len(history) + 1, dataRetention.maxEntries)
         /\ \A j \in 2..Len(history') : history'[j] = history[j - 1]]_vars

\* History or its stored copy holds a Result older than deleteAfterDays
Overdue(h) ==
  \E j \in DOMAIN h : h[j].timestamp < clock - dataRetention.deleteAfterDays * HoursPerDay

\* C12 as stated: with auto-delete on, at every moment neither History nor
\* the stored copy holds a Result older than deleteAfterDays
C12_Original ==
  (historyLoaded /\ dataRetention.autoDelete) =>
    ~Overdue(history) /\ ~Overdue(stored.value)

\* the save effect of History runs in this step
SaveEffectRuns ==
  /\ historyLoaded'
  /\ \/ history' # history
     \/ historyLoaded' # historyLoaded
     \/ dataRetention' # dataRetention

\* C12 (amended): with auto-delete on, right after History is loaded or
\* changes or a retention setting changes, History and the stored copy are
\* equal and hold no Result whose timestamp is deleteAfterDays days or more
\* before the current time, and hold every younger Result they held before.
C12_PrunedOnChange ==
  [][(SaveEffectRuns /\ dataRetention'.autoDelete) =>
       /\ stored' = Stringify(history')
       /\ \A j \in DOMAIN history' :
            history'[j].timestamp > clock' - dataRetention'.deleteAfterDays * HoursPerDay]_vars

\* auto-delete has removed the stored Results of 7 days or more and kept the
\* younger ones
C12_Witness ==
  /\ historyLoaded
  /\ dataRetention.autoDelete
  /\ dataRetention.deleteAfterDays = 7
  /\ dataRetention.maxEntries >= HistoryCap
  /\ clock = Today
  /\ Len(history) = 6
  /\ history[6].id = HistoryCap - 6
  /\ stored = Stringify(history)

\* the grade whose band holds 100 * actual / expected, on the scale that
\* goes down through the bounds b (ping) or up through them (throughput)
BandGrade(x, b, lowerIsBetter) ==
  LET Within(k) == IF lowerIsBetter THEN x <= b[k] ELSE x >= b[k]
      letters == <<"A+", "A", "B", "C", "D">>
  IN IF \A k \in 1..5 : ~Within(k) THEN "F"
     ELSE letters[CHOOSE k \in 1..5 : Within(k) /\ \A j \in 1..(k - 1) : ~Within(j)]

PointsOf == [g \in Grades |->
               IF g = "A+" THEN 43 ELSE IF g = "A" THEN 40 ELSE IF g = "B" THEN 30
               ELSE IF g = "C" THEN 20 ELSE IF g = "D" THEN 10 ELSE 0]

\* the least average, in tenths, of each overall grade
FloorOf == [g \in Grades |->
              IF g = "A+" THEN 42 ELSE IF g = "A" THEN 35 ELSE IF g = "B" THEN 25
              ELSE IF g = "C" THEN 15 ELSE IF g = "D" THEN 5 ELSE 0]

\* C14: the overall grade is the best grade whose threshold (4.2, 3.5, 2.5,
\* 1.5, 0.5, none for F) is not above the average of the three grade points
\* (4.3, 4.0, 3.0, 2.0, 1.0, 0), and every reordering of the three
\* per-metric grades gives the same overall grade.
C14_OverallGrade ==
  callResult # <<>> =>
    LET d == callArgs.downGrade
        u == callArgs.upGrade
        g == callArgs.pingGrade
        sum == PointsOf[d] + PointsOf[u] + PointsOf[g]
        r == callResult[1]
    IN /\ r \in Grades
       /\ sum >= 3 * FloorOf[r]
       /\ \A b \in Grades : FloorOf[b] > FloorOf[r] => sum < 3 * FloorOf[b]
       /\ overallGrade(d, g, u) = r
       /\ overallGrade(u, d, g) = r
       /\ overallGrade(u, g, d) = r
       /\ overallGrade(g, d, u) = r
       /\ overallGrade(g, u, d) = r

\* download B, upload A+ and ping A gave the overall grade A
C14_Witness ==
  /\ callArgs = [downGrade |-> "B", upGrade |-> "A+", pingGrade |-> "A"]
  /\ callResult = <<"A">>

\* the least k with k >= n * pct / 100
NearestRank(n, pct) == CHOOSE k \in 1..n : 100 * k >= pct * n /\ 100 * (k - 1) < pct * n

\* C15: on a non-empty array calculateDetailedStats returns the least and
\* greatest sample as min and max, the middle sample (the mean of the two
\* middle ones for an even length) as median, and the samples of rank
\* ceil(0.95 n) and ceil(0.99 n) as p95 and p99, so that min <= median <= max
\* and min <= p95 <= p99 <= max; on an empty array all seven fields are 0;
\* the array passed in is the same after the call.
C15_DetailedStats ==
  /\ [](callResult # <<>> =>
          LET v == callArgs.values
              r == callResult[1]
              n == Len(v)
          IN IF n = 0
             THEN /\ DOMAIN r = {"mean", "median", "min", "max", "stdDev", "p95", "p99"}
                  /\ \A f \in DOMAIN r : r[f] = 0
             ELSE /\ r.min = Kth(v, 1)
                  /\ r.max = Kth(v, n)
                  /\ 2 * r.median = TwiceMedian(v)
                  /\ r.p95 = Kth(v, NearestRank(n, 95))
                  /\ r.p99 = Kth(v, NearestRank(n, 99))
                  /\ r.min <= r.median /\ r.median <= r.max
                  /\ r.min <= r.p95 /\ r.p95 <= r.p99 /\ r.p99 <= r.max)
  /\ [][callResult' # callResult => callArgs' = callArgs]_vars

\* 20 unsorted distinct samples: p95 is the second greatest, p99 the greatest
C15_Witness ==
  /\ callResult # <<>>
  /\ callArgs.values = Cycle(20, 7, 43)
  /\ callResult[1].p95 < callResult[1].p99
  /\ callResult[1].p99 = callResult[1].max
  /\ callArgs.values[6] > callArgs.values[7]

\* C16: the stability score of a Result is an integer from 0 to 100 that
\* depends on the download statistics only: 0 for mean 0, 100 for stdDev 0
\* with another mean, 0 when stdDev / mean is at least 0.5, and otherwise
\* the integer nearest to 100 - 200 * stdDev / mean (halves going up).
C16_StabilityScore ==
  callResult # <<>> =>
    LET m == callArgs.downloadStats.mean
        d == callArgs.downloadStats.stdDev
        r == callResult[1]
    IN /\ r \in 0..100
       /\ m = 0 => r = 0
       /\ (m # 0 /\ d = 0) => r = 100
       /\ (m # 0 /\ 2 * d >= m) => r = 0
       /\ (m # 0 /\ 2 * d < m) =>
            /\ (2 * r - 1) * m <= 200 * m - 400 * d
            /\ 200 * m - 400 * d < (2 * r + 1) * m

\* download samples with stdDev / mean = 0.25 give 50, whatever the upload
\* statistics
C16_Witness ==
  /\ callResult = <<50>>
  /\ callArgs.downloadStats = [mean |-> 1000, stdDev |-> 250]
  /\ callArgs.uploadStats = [mean |-> 0, stdDev |-> 0]

\* the sum of the distances between the first k + 1 samples, in arrival
\* order
RECURSIVE Travel(_, _)
Travel(v, k) ==
  IF k = 0 THEN 0
  ELSE Travel(v, k - 1)
         + (IF v[k + 1] >= v[k] THEN v[k + 1] - v[k] ELSE v[k] - v[k + 1])

\* C17: calculateJitter returns 0 for fewer than 2 samples and otherwise the
\* sum of the distances between successive samples, in the order given,
\* divided by n - 1; it is never negative and 0 for equal samples.
C17_Jitter ==
  callResult # <<>> =>
    LET v == callArgs.pingValues
        n == Len(v)
        r == callResult[1]
    IN /\ n < 2 => r = 0
       /\ n >= 2 => r * (n - 1) = Travel(v, n - 1)
       /\ r >= 0
       /\ (\A i, j \in DOMAIN v : v[i] = v[j]) => r = 0

\* the samples 10, 15, 12 (times 6) have jitter 4 (times 6), although their
\* sorted order would give 2.5
C17_Witness ==
  /\ callArgs.pingValues = <<60, 90, 72>>
  /\ callResult = <<24>>

AnomalyTypes == <<"download_drop", "upload_drop", "ping_spike">>

AnomalyField(t) == IF t = 1 THEN "download" ELSE IF t = 2 THEN "upload" ELSE "ping"

\* n times the distance of Result j on the bad side of the mean of its
\* metric t: below for download and upload, above for ping
BadSide(h, j, t) ==
  LET v == Metric(h, AnomalyField(t))
  IN IF t = 3 THEN Len(h) * v[j] - Sum(v) ELSE Sum(v) - Len(h) * v[j]

\* Result j lies more than 2 population standard deviations on the bad side
\* of the mean of metric t over the whole history: with d_i = n x_i - sum,
\* the variance is the mean of the d_i squared over n squared
Outlying(h, j, t) ==
  LET v == Metric(h, AnomalyField(t))
      n == Len(h)
  IN /\ BadSide(h, j, t) > 0
     /\ n * BadSide(h, j, t) * BadSide(h, j, t)
          > 4 * Sum([i \in DOMAIN v |-> (n * v[i] - Sum(v)) * (n * v[i] - Sum(v))])

\* the (index, metric) pairs to report, within the 10 most recent Results
Reportable(h) ==
  {q \in (1..Min(Len(h), 10)) \X (1..3) : Outlying(h, q[1], q[2])}

\* the pair reports before the pair q: newer Result, or same and earlier metric
Before(p, q) == p[1] < q[1] \/ (p[1] = q[1] /\ p[2] < q[2])

ReportedIndex(h, a) == CHOOSE j \in DOMAIN h : h[j].id = a.id
ReportedMetric(a) == CHOOSE t \in 1..3 : AnomalyTypes[t] = a.type

\* C19 as stated: critical exactly when the relative deviation from the
\* mean exceeds 50% (drops) or 100% (spike)
C19_Original ==
  callResult # <<>> =>
    \A k \in DOMAIN callResult[1] :
      LET h == callArgs.history
          a == callResult[1][k]
          t == ReportedMetric(a)
          part == BadSide(h, ReportedIndex(h, a), t)
          whole == Sum(Metric(h, AnomalyField(t)))
      IN /\ a.severity \in {"critical", "warning"}
         /\ a.severity = "critical" <=>
              IF t = 3 THEN 100 * part > 100 * whole ELSE 100 * part > 50 * whole

\* C19 (amended): an anomaly is critical exactly when its relative deviation
\* from the mean, rounded to a whole percent with halves going up, exceeds
\* 50 (drops) or 100 (spike), that is when the deviation is at least 50.5%
\* or 100.5%; otherwise it is a warning.
C19_SeverityRounded ==
  callResult # <<>> =>
    \A k \in DOMAIN callResult[1] :
      LET h == callArgs.history
          a == callResult[1][k]
          t == ReportedMetric(a)
          part == BadSide(h, ReportedIndex(h, a), t)
          whole == Sum(Metric(h, AnomalyField(t)))
      IN /\ a.severity \in {"critical", "warning"}
         /\ a.severity = "critical" <=>
              IF t = 3 THEN 200 * part >= 201 * whole ELSE 200 * part >= 101 * whole

\* a download 50.2% below the mean of 20 Results is reported as a warning,
\* a ping 189% above it as critical
C19_Witness ==
  /\ callResult # <<>>
  /\ callArgs.history = HistoryWith(20, {1}, 97, 100, 60)
  /\ Len(callResult[1]) = 2
  /\ callResult[1][1].type = "download_drop"
  /\ callResult[1][1].percent = 50
  /\ callResult[1][1].severity = "warning"
  /\ callResult[1][2].type = "ping_spike"
  /\ callResult[1][2].severity = "critical"

\* the hours of day at which the Results of h were made
HoursIn(h) == {h[j].timestamp % HoursPerDay : j \in DOMAIN h}

\* the Results of h made at hour x, and the sum of their downloads
AtHour(h, x) == {j \in DOMAIN h : h[j].timestamp % HoursPerDay = x}
DownloadAt(h, x) == Sum([j \in DOMAIN h |-> IF j \in AtHour(h, x) THEN h[j].download ELSE 0])

\* e is the entry of hour group e.hour of h
GroupOf(h, e) ==
  /\ e.hour \in HoursIn(h)
  /\ e.testCount = Cardinality(AtHour(h, e.hour))
  /\ e.avgDown * e.testCount = DownloadAt(h, e.hour)

\* C20: the peak analysis is absent when the history has fewer than 3
\* Results or a single hour of day; when present, bestHour and worstHour
\* are hour groups of the history such that no group has a greater, and
\* none a smaller, mean download, speedDifference is the difference of the
\* two means and not negative, and hourlyData has one entry per hour whose
\* test counts add up to the length of the history.
C20_PeakAnalysis ==
  callResult # <<>> =>
    LET h == callArgs.history
        r == callResult[1]
    IN /\ (Len(h) < 3 \/ Cardinality(HoursIn(h)) < 2) => ~r.present
       /\ r.present =>
            /\ GroupOf(h, r.bestHour)
            /\ GroupOf(h, r.worstHour)
            /\ \A x \in HoursIn(h) :
                 /\ DownloadAt(h, x) <= r.bestHour.avgDown * Cardinality(AtHour(h, x))
                 /\ DownloadAt(h, x) >= r.worstHour.avgDown * Cardinality(AtHour(h, x))
            /\ r.speedDifference = r.bestHour.avgDown - r.worstHour.avgDown
            /\ r.speedDifference >= 0
            /\ Len(r.hourlyData) = Cardinality(HoursIn(h))
            /\ \A k \in DOMAIN r.hourlyData : GroupOf(h, r.hourlyData[k])
            /\ {r.hourlyData[k].hour : k \in DOMAIN r.hourlyData} = HoursIn(h)
            /\ Sum([k \in DOMAIN r.hourlyData |-> r.hourlyData[k].testCount]) = Len(h)

\* two Results of 9:00 on different days with mean 90 and one of 20:00
\* with 60: the best hour is 9, the worst 20, the difference 30
C20_Witness ==
  /\ callResult # <<>>
  /\ callArgs.history = <<[timestamp |-> Today + 33, download |-> 120],
                          [timestamp |-> Today + 20, download |-> 60],
                          [timestamp |-> Today + 9, download |-> 60]>>
  /\ callResult[1].present
  /\ callResult[1].bestHour = [hour |-> 9, avgDown |-> 90, testCount |-> 2]
  /\ callResult[1].worstHour = [hour |-> 20, avgDown |-> 60, testCount |-> 1]
  /\ callResult[1].speedDifference = 30

\* the titles each of the seven rules can give, in the order of the rules
RuleTitles ==
  <<{"Great Performance", "Below Expected"}, {"Best Testing Time"},
    {"Stable Connection", "Unstable Connection"}, {"Gaming Alert", "Gaming Ready"},
    {"Issues Detected"}, {"Good Testing Habit"}, {"Network Comparison"}>>

RuleOf(insight) == CHOOSE k \in DOMAIN RuleTitles : insight.title \in RuleTitles[k]

\* what rule k pushes for the arguments of the call
Contribution(k) ==
  LET h == callArgs.history
  IN CASE k = 1 -> BaselineInsight(h, callArgs.ispDown)
       [] k = 2 -> PeakInsight(h)
       [] k = 3 -> StabilityInsight(h)
       [] k = 4 -> JitterInsight(h)
       [] k = 5 -> AnomalyInsight(h)
       [] k = 6 -> FrequencyInsight(h, clock)
       [] k = 7 -> NetworkInsight(h)

Producing == {k \in DOMAIN RuleTitles : Contribution(k) # <<>>}

\* C21: insight generation returns at most 4 insights; each of the seven
\* rules contributes zero or one insight, and the returned list is the first
\* 4 insights produced in the fixed rule order, whatever their type; for an
\* empty History the list is empty
C21_FirstFourInsights ==
  callResult # <<>> =>
    LET r == callResult[1]
        h == callArgs.history
    IN /\ Len(r) <= 4
       /\ Len(h) = 0 => r = <<>>
       /\ Len(h) > 0 =>
            /\ \A k \in DOMAIN RuleTitles : Len(Contribution(k)) <= 1
            /\ Len(r) = Min(4, Cardinality(Producing))
            /\ \A j \in DOMAIN r :
                 /\ \E k \in DOMAIN RuleTitles : r[j].title \in RuleTitles[k]
                 /\ Contribution(RuleOf(r[j])) = <<r[j]>>
                 /\ Cardinality({k \in Producing : k < RuleOf(r[j])}) = j - 1

\* all seven rules produce an insight, the list is cut to the first four and
\* the warning of the anomaly rule is among those left out
C21_Witness ==
  /\ callResult # <<>>
  /\ Len(callArgs.history) > 0
  /\ Cardinality(Producing) = 7
  /\ Len(callResult[1]) = 4
  /\ \A j \in 1..4 : RuleOf(callResult[1][j]) = j
  /\ Contribution(5)[1].type = "warning"
  /\ \E j \in 1..4 : callResult[1][j].type # "warning"

\* what the description of each achievement asks of the Results of a history
Earned(id, h) ==
  LET Has(j, field) == field \in DOMAIN h[j]
      WithStat(j, field) == Has(j, "stats") /\ field \in DOMAIN h[j].stats
  IN CASE id = "speed_demon" -> \E j \in DOMAIN h : h[j].download >= 500 * ValScale
       [] id = "century_club" -> \E j \in DOMAIN h : h[j].download >= 100 * ValScale
       [] id = "gigabit_glory" -> \E j \in DOMAIN h : h[j].download >= 1000 * ValScale
       [] id = "stable_connection" ->
            \E j \in DOMAIN h : WithStat(j, "stabilityScore") /\ h[j].stats.stabilityScore >= 90
       [] id = "rock_solid" ->
            \E i, j, k \in DOMAIN h :
              /\ i < j /\ j < k
              /\ \A x \in {i, j, k} : WithStat(x, "stabilityScore") /\ h[x].stats.stabilityScore >= 95
       [] id = "quick_reflexes" -> \E j \in DOMAIN h : h[j].ping < 10 * ValScale
       [] id = "low_latency" -> \E j \in DOMAIN h : h[j].ping < 20 * ValScale
       [] id = "gaming_ready" ->
            \E j \in DOMAIN h : WithStat(j, "jitter") /\ h[j].stats.jitter < 5 * ValScale
       [] id = "first_test" -> h # <<>>
       [] id = "dedicated_tester" -> Len(h) >= 10
       [] id = "data_collector" -> Len(h) >= 25
       [] id = "speed_scientist" -> Len(h) >= 50
       [] id = "honor_roll" -> \E j \in DOMAIN h : WithStat(j, "grade") /\ h[j].stats.grade = "A+"
       [] id = "consistent_performer" ->
            \E k \in DOMAIN h :
              /\ k + 4 \in DOMAIN h
              /\ \A j \in k..(k + 4) : WithStat(j, "grade") /\ h[j].stats.grade \in {"A+", "A"}
       [] id = "network_explorer" ->
            \A t \in {"wifi", "ethernet", "mobile"} :
              \E j \in DOMAIN h : Has(j, "networkType") /\ h[j].networkType = t
       [] id = "home_mapper" ->
            \E i, j, k \in DOMAIN h :
              /\ \A x \in {i, j, k} : Has(x, "location")
              /\ h[i].location # h[j].location
              /\ h[i].location # h[k].location
              /\ h[j].location # h[k].location

\* C22: the unlocked achievements follow the current History alone: nothing
\* is unlocked by a History that is empty (after Clear All History, or before
\* anything was measured), an achievement is unlocked only as long as
\* Results that earn it are in the History, so that it is locked again once
\* they are cleared or evicted, and no operation that leaves the History as
\* it is changes what is unlocked
C22_UnlockedFollowsHistory ==
  /\ [](history = <<>> => unlockedAchievements(history) = <<>>)
  /\ [](\A id \in Range(unlockedAchievements(history)) : Earned(id, history))
  /\ [][history' = history =>
          unlockedAchievements(history') = unlockedAchievements(history)]_vars

\* a run has pushed the oldest Result of a full stored History out, and
\* with it what had unlocked the speed, ping, jitter, stability, grade,
\* network and location achievements
C22_Witness ==
  /\ Len(unlockedAchievements(Veteran(HistoryCap))) = Len(ACHIEVEMENTS)
  /\ historyLoaded
  /\ Len(history) = HistoryCap
  /\ history[1].id > HistoryCap
  /\ history[HistoryCap] = Veteran(HistoryCap)[HistoryCap - 1]
  /\ Range(unlockedAchievements(history)) \cap
       {"speed_demon", "gigabit_glory", "quick_reflexes", "gaming_ready", "rock_solid",
        "honor_roll", "consistent_performer", "network_explorer", "home_mapper"} = {}
  /\ "century_club" \in Range(unlockedAchievements(history))

\* the body of the request is not a JSON text
Malformed(body) == body.kind = "invalid"

\* C23: a POST to the speed endpoint whose request body is malformed
\* returns a 4xx status and a JSON body with success = false, an error
\* message and an error code; never a success payload
C23_MalformedBodyResponse ==
  (callResult # <<>> /\ Malformed(callArgs.body)) =>
    LET response == callResult[1]
    IN /\ response.status \in 400..499
       /\ response.success = FALSE
       /\ "error" \in response.keys /\ response.error # ""
       /\ "code" \in response.keys
       /\ response.data = <<>>

\* C24: if the persisted History cannot be parsed, loading completes with
\* an empty History and the history-loaded flag true (the load effect is
\* the only step an unloaded page can take, and it cannot fail), runs
\* started afterwards put their Results at the front of that History, and a
\* persisted Baseline that cannot be parsed leaves the default Baseline
\* (300, 50, 15) in effect
C24_UnparsableIsAbsent ==
  /\ [][~historyLoaded =>
          /\ historyLoaded'
          /\ ~(stored.present /\ stored.parsable) => history' = <<>>
          /\ ~(storedBaseline.present /\ storedBaseline.parsable) =>
               baseline' = [ispDown |-> 300, ispUp |-> 50, ispPing |-> 15]]_vars
  /\ [](~historyLoaded => ENABLED LoadEffect)
  /\ [][\A i \in 1..Len(runs) : (Completes(i) /\ ~runs[i].isIncognito) =>
          /\ Len(history') = Len(history) + 1
          /\ history'[1].id = nextId
          /\ \A j \in DOMAIN history : history'[j + 1] = history[j]]_vars
  /\ [](\A j \in DOMAIN history :
          /\ history[j].id > HistoryCap
          /\ \A k \in DOMAIN history : j < k => history[j].id > history[k].id)

\* after the load of the unparsable History two runs have been saved
C24_Witness ==
  /\ historyLoaded
  /\ Len(history) = 2
  /\ history[1].id > history[2].id
  /\ stored = Stringify(history)

\* C25: the Gaming Ready achievement ('Jitter under 5ms') is unlocked if and
\* only if the History contains a Result that has a stats block whose jitter
\* is less than 5 ms; Results without a stats block never unlock it
C25_GamingReady ==
  "gaming_ready" \in Range(unlockedAchievements(history)) <=>
    \E j \in DOMAIN history :
      /\ "stats" \in DOMAIN history[j]
      /\ history[j].stats.jitter < 5 * ValScale

\* C26: phase is one of ping, download, upload exactly when status is
\* running, and null exactly when status is idle or done, after any sequence
\* of start calls, frame callbacks and run completions
C26_PhaseMatchesStatus ==
  /\ status \in {"idle", "running", "done"}
  /\ phase \in Phases <=> status = "running"
  /\ phase = "null" <=> status \in {"idle", "done"}

\* a second run has reached its download phase after the first one was done
C26_Witness ==
  /\ nextId > HistoryCap + 1
  /\ calls > 1
  /\ status = "running"
  /\ phase = "download"
  /\ \E i \in DOMAIN runs : runs[i].pc = "download"

\* C27: when a run completes, each of the three raw sample buffers holds at
\* least one sample, even if a single frame callback fired in a phase, so the
\* medians of the Result are not the zeros of an empty array; the ping and
\* download buffers the completion reads are the arrays this run's own ping
\* and download phases collected
C27_BuffersAtCompletion ==
  [][\A i \in 1..Len(runs) : Completes(i) =>
       /\ samples'.ping # <<>> /\ samples'.down # <<>> /\ samples'.up # <<>>
       /\ samples'.ping = runs[i].pingSamples
       /\ samples'.down = runs[i].downloadSamples
       /\ samples'.up = runs[i].buf
       /\ ping' = RoundUnit(StatsMedian(runs[i].pingSamples)) /\ ping' > 0
       /\ download' = RoundTenth(StatsMedian(runs[i].downloadSamples)) /\ download' > 0
       /\ upload' > 0]_vars

\* a second run has completed with a single sample in each of its buffers,
\* every phase having ended at its first frame callback
C27_Witness ==
  /\ status = "done"
  /\ nextId > HistoryCap + 2
  /\ Len(samples.ping) = 1 /\ Len(samples.down) = 1 /\ Len(samples.up) = 1
  /\ runs = <<>>

C29_FailedPatchChangesNothing ==
  [][\A body \in PatchBodies :
       (/\ callArgs' = Request("PATCH", body)
        /\ webhooks' = WebhooksPATCH(webhooks, body).store
        /\ ~WebhooksPATCH(webhooks, body).response.success)
         => webhooks' = webhooks]_vars

\* the place of a grade in the order A+, A, B, C, D, F: 1 is the best
GradeRank ==
  [g \in Grades |->
     CASE g = "A+" -> 1 [] g = "A" -> 2 [] g = "B" -> 3 [] g = "C" -> 4
       [] g = "D" -> 5 [] g = "F" -> 6]

\* C30: the overall grade is never better than the best and never worse
\* than the worst of the three per-metric grades, three equal grades give
\* that grade, and the overall grade is A+ exactly when at least two of the
\* three grades are A+ and the third is A or A+
C30_OverallWithinGrades ==
  callResult # <<>> =>
    LET given == <<callArgs.downGrade, callArgs.upGrade, callArgs.pingGrade>>
        ranks == {GradeRank[given[j]] : j \in 1..3}
        r == callResult[1]
    IN /\ \E a \in ranks : a <= GradeRank[r]
       /\ \E b \in ranks : GradeRank[r] <= b
       /\ Cardinality(ranks) = 1 => r = given[1]
       /\ r = "A+" <=>
            /\ Cardinality({j \in 1..3 : given[j] = "A+"}) >= 2
            /\ \A j \in 1..3 : given[j] \in {"A+", "A"}

\* two A+ and one A give A+
C30_Witness ==
  /\ callArgs = [downGrade |-> "A+", upGrade |-> "A", pingGrade |-> "A+"]
  /\ callResult = <<"A+">>

============================================================================
